---- MODULE Spec2Model ----
(***************************************************************************)
(* A model of the stateful units of fragments-boilerplate:                 *)
(*   - the slot-based buffer animator  (useStorageTrigger),                *)
(*   - the trail field accumulator     (useGridTrailTexture),              *)
(*   - the vanilla pointer mirror      (createPointerUniform),             *)
(*   - the scene and its render loop   (WebGPUScene).                      *)
(* Each unit has its own specification (SpecPool, SpecTrail, SpecMirror,   *)
(* SpecScene);                                                             *)
(* a unit's actions leave the other units' variables unchanged.            *)
(*                                                                         *)
(* Numbers.  JavaScript numbers that stay small and exact in the program   *)
(* (clock values, durations, pointer positions, velocities, squared        *)
(* distances, eased progress) are exact rationals <<n, d>> with d > 0 in   *)
(* lowest terms.  The deposits of the trail go through sqrt, hypot, pow    *)
(* and quotients, and the grid is a Float32Array: these are binary floats  *)
(* <<s, m, e>>, computed and rounded as float64 and stored as float32.     *)
(***************************************************************************)
EXTENDS Integers, Sequences, FiniteSets, TLC

(***************************************************************************)
(* Bounds of the model.                                                    *)
(***************************************************************************)
\* number of slots of the pool (the `size` of useStorageBuffers)
PoolSize == 2
\* largest value of state.clock.elapsedTime
MaxClock == 3
\* resolution of the trail grid (the `grid` option: size x size cells)
GridSize == 2
\* number of frame ticks of the trail accumulator in a run
MaxTicks == 2
\* the easing curves are sampled at the multiples of 1 / 2^EaseBits in [0, 1]
EaseBits == 3
\* number of times the scene is mounted in a run
MaxMounts == 2
\* number of calls of the scene's gl factory in a run
MaxInits == 2
\* number of renders of the animator's component that make new buffers
MaxRenders == 1
\* number of calls of trigger in a run
MaxTriggers == 3

\* program constants
InfluenceGamma == 1

(***************************************************************************)
(* Exact rational arithmetic.                                              *)
(***************************************************************************)
Abs(n) == IF n < 0 THEN -n ELSE n


RECURSIVE Gcd(_, _)
Gcd(a, b) == IF b = 0 THEN a ELSE Gcd(b, a % b)

\* the rational n/d in lowest terms with a positive denominator (d # 0)
Norm(n, d) ==
    LET g == Gcd(Abs(n), Abs(d))
        s == IF d < 0 THEN -1 ELSE 1
    IN  <<(s * n) \div g, (s * d) \div g>>

R(n) == <<n, 1>>

RAdd(a, b) == Norm(a[1] * b[2] + b[1] * a[2], a[2] * b[2])

RSub(a, b) == Norm(a[1] * b[2] - b[1] * a[2], a[2] * b[2])

RMul(a, b) == Norm(a[1] * b[1], a[2] * b[2])

\* a / b for b # 0
RDiv(a, b) == Norm(a[1] * b[2], a[2] * b[1])

RLt(a, b) == a[1] * b[2] < b[1] * a[2]

RLe(a, b) == a[1] * b[2] <= b[1] * a[2]

RAbs(a) == <<Abs(a[1]), a[2]>>

\* Math.min / Math.max on finite numbers
RMin(a, b) == IF RLt(b, a) THEN b ELSE a

RMax(a, b) == IF RLt(a, b) THEN b ELSE a

VARIABLES
    active,        \* buffer.activeBuffer.array
    values,        \* buffer.valuesBuffer.array
    dataValues,    \* dataBuffers[key].valuesBuffer.array, per key
    dataDirty,     \* dataBuffers[key].valuesBuffer.needsUpdate, per key
    animations,    \* animationsRef.current: slot index -> record, or NoAnim
    springs,       \* per slot index, the running Motion springs whose
                   \* callbacks captured that index
    retired,       \* the buffers of earlier renders, which the trigger and
                   \* the spring callbacks of those renders still hold: their
                   \* arrays, dirty flags and running springs
    triggers,      \* the number of calls of trigger so far
    renders,       \* the number of renders that made new buffers so far
    clock,         \* state.clock.elapsedTime
    observed,      \* history: a frame tick has looked at the slot's current record
    poolOp,        \* history: the last operation of the animator and what it did
    \* the trail field accumulator
    gamma,         \* the influenceGamma option of the hook
    canvas,        \* gl.domElement is there
    layout,        \* the rectangle the canvas occupies in the page
    mounted,       \* the useEffect of useGridTrailTexture has run
    hasTexture,    \* dataTextureRef.current is set
    listening,     \* the canvas listeners are registered
    grid,          \* dataTextureRef.current.image.data, per cell <<r, g, b, a>>
    bounds,        \* canvasBoundsRef.current
    rawPointer,    \* rawPointerRef.current
    pointer,       \* pointerRef.current
    velocity,      \* pointerVelocityRef.current
    consumed,      \* history: the sample the last tick with a sample consumed
    raised,        \* history: handlePointerMove has thrown
    ticks,         \* history: number of frame ticks so far
    trailOp,       \* history: the last operation of the accumulator
    twinVelocity,  \* pointerVelocityRef.current of a second run of the hook that
                   \* gets the same events and ticks
    twinGrid,      \* the grid of that second run
    differed,      \* history: at the last tick the two stored velocities differed
    \* the vanilla pointer mirror
    clampForm,     \* the way clamp of @/utils/math is written in the build
    element,       \* options.element is there
    mPointer,      \* pointer, the tracked THREE.Vector2
    mUniform,      \* pointerUniform.value
    mirrorOp,      \* history: the last call and the coordinates it was given
    \* the easing curves of the animator, as a function of the progress
    curve,         \* anim.easing
    pLow,          \* a progress in [0, 1]
    pHigh,         \* a progress in [pLow, 1]
    easedLow,      \* easedProgress for pLow, once computed
    easedHigh,     \* easedProgress for pHigh, once computed
    \* the scene
    sceneMounted,     \* a WebGPUScene is mounted
    mounts,           \* the number of mounts so far; names the mounted instance
    frameloopProp,    \* the `frameloop` prop of the latest render
    canvasFrameloop,  \* the canvasFrameloop state of the mounted instance
    inits,            \* the calls of the gl factory: the instance whose closure
                      \* ran, the frameloop it captured, the state of init()
    sceneOp           \* history: the last operation of the scene

poolVars == <<active, values, dataValues, dataDirty, animations, springs,
              retired, renders, triggers, clock, observed, poolOp>>

trailVars == <<gamma, canvas, layout, mounted, hasTexture, listening, grid, bounds,
               rawPointer, pointer, velocity, consumed, raised, ticks, trailOp,
               twinVelocity, twinGrid, differed>>

mirrorVars == <<clampForm, element, mPointer, mUniform, mirrorOp>>

easeVars == <<curve, pLow, pHigh, easedLow, easedHigh>>

sceneVars == <<sceneMounted, mounts, frameloopProp, canvasFrameloop, inits,
               sceneOp>>

(***************************************************************************)
(* The slot-based buffer animator: useStorageTrigger over one ShaderBuffer *)
(* and one auxiliary data buffer.                                          *)
(***************************************************************************)
Slots == 0 .. (PoolSize - 1)

\* EasingType
ManualEasings == {"linear", "easeIn", "easeOut", "easeInOut"}

\* the durations, target values and payloads trigger is called with
Durations == {1, 2, 4}

\* durations the type of TriggerOptions.duration (number) also admits
OddDurations == {-1, 0}

TargetValues == {2}

\* the names of the auxiliary buffers handed to useStorageTrigger
DataKeys == {"posX", "posY"}

\* the `data` payload of a trigger call: one entry for an existing buffer and
\* one for a buffer that does not exist; no entry for the buffer posY
Payloads == { <<<<"posX", 5>>, <<"hue", 7>>>>,
              <<<<"posY", 9>>, <<"constructor", 1>>, <<"posX", 3>>>> }

\* the values a spring's onUpdate reports (a spring may overshoot its target)
SpringValues == {1, 3}

\* animationsRef.current.has(i) is false
NoAnim == [kind |-> "none"]

\* the record trigger stores for a manual easing
ManualRecord(duration, easing, targetValue) ==
    [kind |-> "manual", startTime |-> 0, duration |-> duration,
     easing |-> easing, targetValue |-> targetValue]

\* the playback controls animate() returns: an object without `easing`
SpringRecord == [kind |-> "spring"]

\* new StorageInstancedBufferAttribute(size, 1): a zeroed Float32Array
ZeroArray == [i \in Slots |-> R(0)]

InitPool ==
    /\ active = [i \in Slots |-> 0]
    /\ values = ZeroArray
    /\ dataValues = [k \in DataKeys |-> ZeroArray]
    /\ dataDirty = [k \in DataKeys |-> FALSE]
    /\ animations = [i \in Slots |-> NoAnim]
    /\ springs = [i \in Slots |-> 0]
    /\ retired = <<>>
    /\ renders = 0
    /\ triggers = 0
    /\ clock = 0
    /\ observed = [i \in Slots |-> FALSE]
    /\ poolOp = [op |-> "init", index |-> -1, log |-> {}]

\* array.findIndex((value) => value === 0), scanning from `from`
RECURSIVE FindZeroFrom(_, _)
FindZeroFrom(arr, from) ==
    IF from >= PoolSize THEN -1
    ELSE IF arr[from] = 0 THEN from
    ELSE FindZeroFrom(arr, from + 1)

\* a scan that falls back to slot 0 when nothing is free
FirstZeroIndexOrZero ==
    IF FindZeroFrom(active, 0) = -1 THEN 0 ELSE FindZeroFrom(active, 0)

FirstZeroIndex == FindZeroFrom(active, 0)

\* payload keys for which dataBuffers[key] is truthy although no buffer has
\* that name: dataBuffers is a plain object, and the key names a member it
\* inherits from Object.prototype
InheritedKeys ==
    {"constructor", "toString", "toLocaleString", "valueOf", "hasOwnProperty",
     "isPrototypeOf", "propertyIsEnumerable", "__proto__", "__defineGetter__",
     "__defineSetter__", "__lookupGetter__", "__lookupSetter__"}

\* dataBuffers[key] is truthy and is not a buffer: reading
\* dataBuffers[key].valuesBuffer.array throws a TypeError
ThrowsAt(key) == key \in InheritedKeys /\ key \notin DataKeys

\* the forEach over the payload throws at one of its entries
Throws(data) == \E j \in 1 .. Len(data) : ThrowsAt(data[j][1])

\* Object.entries(data).forEach: the entries are taken in order; an entry that
\* names a buffer is stored, an entry for which dataBuffers[key] is undefined
\* is skipped, and the loop ends at the entry that throws
RECURSIVE StoreData(_, _, _)
StoreData(bufs, data, index) ==
    IF data = <<>> THEN bufs
    ELSE LET key == Head(data)[1]
             val == Head(data)[2]
         IN  IF key \in DataKeys
             THEN StoreData([bufs EXCEPT ![key][index] = R(val)], Tail(data),
                            index)
             ELSE IF ThrowsAt(key) THEN bufs
             ELSE StoreData(bufs, Tail(data), index)

RECURSIVE MarkDirty(_, _)
MarkDirty(dirty, data) ==
    IF data = <<>> THEN dirty
    ELSE LET key == Head(data)[1]
         IN  IF key \in DataKeys
             THEN MarkDirty([dirty EXCEPT ![key] = TRUE], Tail(data))
             ELSE IF ThrowsAt(key) THEN dirty
             ELSE MarkDirty(dirty, Tail(data))

\* the options trigger is called with, defaults already applied
TriggerOptions ==
    [targetValue : TargetValues, duration : Durations, easing : ManualEasings,
     data : Payloads]
    \cup \* `duration` is not read when easing is 'spring'
    [targetValue : TargetValues, duration : {1}, easing : {"spring"},
     data : Payloads]
    \cup
    [targetValue : TargetValues, duration : OddDurations, easing : {"linear"},
     data : Payloads]

\* what a call of trigger does to the slot arrays and the records, for the
\* index idx that the scan returned
TriggerEffect(idx, options) ==
    IF idx = -1
    THEN \* console.warn('Buffer full, cannot trigger new animation'); return
         UNCHANGED <<active, values, dataValues, dataDirty, animations,
                     springs, observed>>
    ELSE /\ active' = [active EXCEPT ![idx] = 1]
         /\ dataValues' = StoreData(dataValues, options.data, idx)
         /\ dataDirty' = MarkDirty(dataDirty, options.data)
         /\ IF Throws(options.data)
            THEN \* the TypeError leaves trigger: neither animate nor
                 \* animationsRef.current.set is reached
                 /\ springs' = springs
                 /\ animations' = animations
                 /\ observed' = observed
            ELSE IF options.easing = "spring"
            THEN /\ springs' = [springs EXCEPT ![idx] = @ + 1]
                 /\ animations' = [animations EXCEPT ![idx] = SpringRecord]
                 /\ observed' = [observed EXCEPT ![idx] = FALSE]
            ELSE /\ springs' = springs
                 /\ animations' = [animations EXCEPT ![idx] =
                        ManualRecord(options.duration, options.easing,
                                     options.targetValue)]
                 /\ observed' = [observed EXCEPT ![idx] = FALSE]
         /\ values' = values

\* trigger(options)
Trigger(options) ==
    /\ triggers < MaxTriggers
    /\ triggers' = triggers + 1
    /\ TriggerEffect(FirstZeroIndex, options)
    /\ poolOp' = [op |-> "trigger", index |-> FirstZeroIndex,
                  log |-> {<<"data", options.data>>} \cup
                          (IF FirstZeroIndex # -1 /\ Throws(options.data)
                           THEN {<<"threw", <<>>>>} ELSE {})]
    /\ UNCHANGED <<retired, renders, clock>>
    /\ UNCHANGED <<trailVars, mirrorVars, easeVars, sceneVars>>

\* trigger({easing: 'spring'}) with an animate that runs onUpdate(targetValue)
\* and onComplete before it returns: onComplete frees the slot and deletes a
\* record that is not there yet, then trigger stores the playback controls
TriggerSpringSync(options) ==
    LET idx == FirstZeroIndex IN
    /\ options.easing = "spring"
    /\ triggers < MaxTriggers
    /\ triggers' = triggers + 1
    /\ idx # -1
    /\ ~Throws(options.data)
    /\ active' = [[active EXCEPT ![idx] = 1] EXCEPT ![idx] = 0]
    /\ dataValues' = StoreData(dataValues, options.data, idx)
    /\ dataDirty' = MarkDirty(dataDirty, options.data)
    /\ values' = [[values EXCEPT ![idx] = R(options.targetValue)]
                     EXCEPT ![idx] = R(0)]
    /\ animations' = [[animations EXCEPT ![idx] = NoAnim]
                         EXCEPT ![idx] = SpringRecord]
    /\ observed' = [observed EXCEPT ![idx] = FALSE]
    /\ poolOp' = [op |-> "triggerSync", index |-> idx,
                  log |-> {<<"data", options.data>>}]
    /\ UNCHANGED <<springs, retired, renders, clock>>
    /\ UNCHANGED <<trailVars, mirrorVars, easeVars, sceneVars>>

\* onUpdate: (v) => { buffer.valuesBuffer.array[firstZeroIndex] = v }
\* of a running spring that captured index i
SpringUpdate(i, v) ==
    /\ springs[i] > 0
    /\ values' = [values EXCEPT ![i] = R(v)]
    /\ poolOp' = [op |-> "onUpdate", index |-> i, log |-> {<<"update", R(v)>>}]
    /\ UNCHANGED <<active, dataValues, dataDirty, animations, springs, retired,
                   renders, triggers, clock, observed>>
    /\ UNCHANGED <<trailVars, mirrorVars, easeVars, sceneVars>>

\* an onComplete that frees the slot and leaves the last value in place
SpringCompleteKeepsValue(i) ==
    /\ springs[i] > 0
    /\ active' = [active EXCEPT ![i] = 0]
    /\ animations' = [animations EXCEPT ![i] = NoAnim]
    /\ springs' = [springs EXCEPT ![i] = @ - 1]
    /\ poolOp' = [op |-> "onComplete", index |-> i, log |-> {}]
    /\ UNCHANGED <<values, dataValues, dataDirty, retired, renders, triggers,
                   clock, observed>>
    /\ UNCHANGED <<trailVars, mirrorVars, easeVars, sceneVars>>

\* onComplete: () => { ... animationsRef.current.delete(firstZeroIndex) }
\* of a running spring that captured index i; the spring then stops
SpringComplete(i) ==
    /\ springs[i] > 0
    /\ active' = [active EXCEPT ![i] = 0]
    /\ values' = [values EXCEPT ![i] = R(0)]
    /\ animations' = [animations EXCEPT ![i] = NoAnim]
    /\ springs' = [springs EXCEPT ![i] = @ - 1]
    /\ poolOp' = [op |-> "onComplete", index |-> i, log |-> {}]
    /\ UNCHANGED <<dataValues, dataDirty, retired, renders, triggers, clock,
                   observed>>
    /\ UNCHANGED <<trailVars, mirrorVars, easeVars, sceneVars>>

\* the component renders again and useStorageBuffers makes new buffers (its
\* useMemo depends on the identity of the `keys` array, which is a new one
\* when the array is written inline): the hook now works on zeroed arrays,
\* animationsRef keeps its records, and the trigger returned before and
\* the springs started before keep the buffers they captured
RenderWithNewBuffers ==
    /\ renders < MaxRenders
    /\ renders' = renders + 1
    /\ retired' = Append(retired, [active |-> active, values |-> values,
                                   dataValues |-> dataValues,
                                   dataDirty |-> dataDirty,
                                   springs |-> springs])
    /\ active' = [i \in Slots |-> 0]
    /\ values' = ZeroArray
    /\ dataValues' = [k \in DataKeys |-> ZeroArray]
    /\ dataDirty' = [k \in DataKeys |-> FALSE]
    /\ springs' = [i \in Slots |-> 0]
    /\ poolOp' = [op |-> "render", index |-> -1, log |-> {}]
    /\ UNCHANGED <<animations, triggers, clock, observed>>
    /\ UNCHANGED <<trailVars, mirrorVars, easeVars, sceneVars>>

\* trigger(options) as an earlier render returned it: useCallback returns a
\* new trigger when the buffers change, and the one of render g stays
\* callable by whoever captured it (a timer, an effect, a handler). It scans
\* and writes the buffers of its render, retired[g], and stores its record in
\* animationsRef, which all renders share
StaleTrigger(g, options) ==
    LET buf == retired[g]
        idx == FindZeroFrom(buf.active, 0)
        threw == Throws(options.data)
        spring == options.easing = "spring"
    IN  /\ g \in DOMAIN retired
        /\ triggers < MaxTriggers
        /\ triggers' = triggers + 1
        /\ IF idx = -1
           THEN \* console.warn('Buffer full, cannot trigger new animation')
                UNCHANGED <<retired, animations, observed>>
           ELSE /\ retired' =
                      [retired EXCEPT ![g] =
                          [buf EXCEPT
                             !.active[idx] = 1,
                             !.dataValues =
                                 StoreData(buf.dataValues, options.data, idx),
                             !.dataDirty = MarkDirty(buf.dataDirty, options.data),
                             !.springs[idx] =
                                 IF ~threw /\ spring THEN @ + 1 ELSE @]]
                /\ animations' =
                      IF threw THEN animations
                      ELSE [animations EXCEPT ![idx] =
                              IF spring THEN SpringRecord
                              ELSE ManualRecord(options.duration, options.easing,
                                                options.targetValue)]
                /\ observed' = IF threw THEN observed
                               ELSE [observed EXCEPT ![idx] = FALSE]
        /\ poolOp' = [op |-> "staleTrigger", index |-> idx,
                      log |-> {<<"data", options.data>>, <<"buffers", g>>} \cup
                              (IF idx # -1 /\ threw
                               THEN {<<"threw", <<>>>>} ELSE {})]
        /\ UNCHANGED <<active, values, dataValues, dataDirty, springs, renders,
                       clock>>
        /\ UNCHANGED <<trailVars, mirrorVars, easeVars, sceneVars>>

\* the trigger of the earlier render g, called with easing 'spring' and an
\* animate that runs onUpdate(targetValue) and onComplete before it returns
StaleTriggerSpringSync(g, options) ==
    LET buf == retired[g]
        idx == FindZeroFrom(buf.active, 0)
    IN  /\ g \in DOMAIN retired
        /\ options.easing = "spring"
        /\ triggers < MaxTriggers
        /\ triggers' = triggers + 1
        /\ idx # -1
        /\ ~Throws(options.data)
        /\ retired' =
              [retired EXCEPT ![g] =
                  [buf EXCEPT
                     !.active = [[buf.active EXCEPT ![idx] = 1]
                                    EXCEPT ![idx] = 0],
                     !.values = [[buf.values EXCEPT
                                    ![idx] = R(options.targetValue)]
                                    EXCEPT ![idx] = R(0)],
                     !.dataValues = StoreData(buf.dataValues, options.data, idx),
                     !.dataDirty = MarkDirty(buf.dataDirty, options.data)]]
        /\ animations' = [[animations EXCEPT ![idx] = NoAnim]
                             EXCEPT ![idx] = SpringRecord]
        /\ observed' = [observed EXCEPT ![idx] = FALSE]
        /\ poolOp' = [op |-> "staleTriggerSync", index |-> idx,
                      log |-> {<<"data", options.data>>, <<"buffers", g>>}]
        /\ UNCHANGED <<active, values, dataValues, dataDirty, springs, renders,
                       clock>>
        /\ UNCHANGED <<trailVars, mirrorVars, easeVars, sceneVars>>

\* onUpdate of a spring that was started on the buffer retired[g]
RetiredSpringUpdate(g, i, v) ==
    /\ g \in DOMAIN retired
    /\ retired[g].springs[i] > 0
    /\ retired' = [retired EXCEPT ![g].values[i] = R(v)]
    /\ poolOp' = [op |-> "retiredUpdate", index |-> i,
                  log |-> {<<"update", R(v)>>}]
    /\ UNCHANGED <<active, values, dataValues, dataDirty, animations, springs,
                   renders, triggers, clock, observed>>
    /\ UNCHANGED <<trailVars, mirrorVars, easeVars, sceneVars>>

\* onComplete of a spring that was started on the buffer retired[g]: the flag
\* and the value it zeroes are those of that buffer, the record it deletes is
\* the one animationsRef holds for the index now
RetiredSpringComplete(g, i) ==
    /\ g \in DOMAIN retired
    /\ retired[g].springs[i] > 0
    /\ retired' = [retired EXCEPT ![g].active[i] = 0, ![g].values[i] = R(0),
                                  ![g].springs[i] = @ - 1]
    /\ animations' = [animations EXCEPT ![i] = NoAnim]
    /\ poolOp' = [op |-> "retiredComplete", index |-> i, log |-> {}]
    /\ UNCHANGED <<active, values, dataValues, dataDirty, springs, renders,
                   triggers, clock, observed>>
    /\ UNCHANGED <<trailVars, mirrorVars, easeVars, sceneVars>>

\* the number NaN, the result of 0 / 0
NaN == <<0, 0>>

\* Math.min(elapsed / anim.duration, 1) for elapsed >= 0 (the clock never runs
\* backwards): 0 / 0 is NaN and stays NaN, a positive elapsed over 0 is
\* Infinity and is capped at 1
Progress(elapsed, duration) ==
    IF duration = 0
    THEN IF elapsed = 0 THEN NaN ELSE R(1)
    ELSE RMin(RDiv(R(elapsed), R(duration)), R(1))

\* easedProgress * anim.targetValue
Scaled(eased, targetValue) ==
    IF eased = NaN THEN NaN ELSE RMul(eased, R(targetValue))

\* progress >= 1
Completed(progress) == progress # NaN /\ RLe(R(1), progress)

\* an easing that ignores the curve's name
EaseAllLinear(easing, progress) == progress

\* the two branches of easeInOut: 2 * progress * progress below 0.5 and
\* -1 + (4 - 2 * progress) * progress from 0.5 on
EaseInOutLower(progress) == RMul(RMul(R(2), progress), progress)

\* an upper branch without the leading -1
EaseInOutUpperNoOffset(progress) ==
    RMul(RSub(R(4), RMul(R(2), progress)), progress)

EaseInOutUpper(progress) ==
    RAdd(R(-1), RMul(RSub(R(4), RMul(R(2), progress)), progress))

\* the easing curves of the frame loop
Ease(easing, progress) ==
    IF progress = NaN THEN NaN
    ELSE IF easing = "easeIn" THEN RMul(progress, progress)
    ELSE IF easing = "easeOut" THEN RMul(progress, RSub(R(2), progress))
    ELSE IF easing = "easeInOut"
    THEN IF RLt(progress, <<1, 2>>)
         THEN EaseInOutLower(progress)
         ELSE EaseInOutUpper(progress)
    ELSE progress

\* anim && 'easing' in anim && anim.easing !== 'spring'
IsManual(anim) == anim.kind = "manual" /\ anim.easing # "spring"

\* a slot the frame loop passes over
Untouched(i) ==
    [active |-> active[i], value |-> values[i], anim |-> animations[i],
     observed |-> observed[i], log |-> {}]

\* history: what a tick did to a manual record; the log of a tick pairs it
\* with the value the tick wrote to values[i] before any cleanup
TickKind(first, elapsed, duration) ==
    IF elapsed = duration THEN "exact"
    ELSE IF elapsed > duration THEN "late"
    ELSE IF first THEN "first"
    ELSE "advance"

\* the cleanup applied to every active slot that has a record
AdvanceSlotAnyRecord(i, now) ==
    IF active[i] = 1 /\ animations[i] # NoAnim
    THEN [active |-> 0, value |-> R(0), anim |-> NoAnim, observed |-> FALSE,
          log |-> {}]
    ELSE Untouched(i)

\* the manual advance without the cleanup of completed animations
AdvanceSlotNoCleanup(i, now) ==
    IF active[i] = 1 /\ animations[i] # NoAnim /\ IsManual(animations[i])
    THEN LET anim == animations[i]
             start == IF anim.startTime = 0 THEN now ELSE anim.startTime
             elapsed == now - start
             progress == Progress(elapsed, anim.duration)
         IN  [active |-> 1,
              value |-> Scaled(Ease(anim.easing, progress), anim.targetValue),
              anim |-> [anim EXCEPT !.startTime = start],
              observed |-> TRUE,
              log |-> {<<TickKind(~observed[i], elapsed, anim.duration),
                          Scaled(Ease(anim.easing, progress), anim.targetValue)>>}]
    ELSE Untouched(i)

\* the manual advance with a cleanup that already fires at half of the duration
AdvanceSlotCleanupAtHalf(i, now) ==
    IF active[i] = 1 /\ animations[i] # NoAnim /\ IsManual(animations[i])
    THEN LET anim == animations[i]
             start == IF anim.startTime = 0 THEN now ELSE anim.startTime
             elapsed == now - start
             progress == Progress(elapsed, anim.duration)
             done == progress # NaN /\ RLe(<<1, 2>>, progress)
         IN  [active |-> IF done THEN 0 ELSE 1,
              value |-> IF done THEN R(0)
                        ELSE Scaled(Ease(anim.easing, progress), anim.targetValue),
              anim |-> IF done THEN NoAnim
                       ELSE [anim EXCEPT !.startTime = start],
              observed |-> ~done,
              log |-> {<<TickKind(~observed[i], elapsed, anim.duration),
                          Scaled(Ease(anim.easing, progress), anim.targetValue)>>}]
    ELSE Untouched(i)

\* the manual advance with a cleanup that frees the slot and leaves the value
\* written just before in place
AdvanceSlotFreeKeepsValue(i, now) ==
    IF active[i] = 1 /\ animations[i] # NoAnim /\ IsManual(animations[i])
    THEN LET anim == animations[i]
             start == IF anim.startTime = 0 THEN now ELSE anim.startTime
             elapsed == now - start
             progress == Progress(elapsed, anim.duration)
             eased == Ease(anim.easing, progress)
             done == Completed(progress)
         IN  [active |-> IF done THEN 0 ELSE 1,
              value |-> Scaled(eased, anim.targetValue),
              anim |-> IF done THEN NoAnim
                       ELSE [anim EXCEPT !.startTime = start],
              observed |-> ~done,
              log |-> {<<TickKind(~observed[i], elapsed, anim.duration),
                          Scaled(Ease(anim.easing, progress), anim.targetValue)>>}]
    ELSE Untouched(i)

\* one iteration of the frame loop: slot i at clock value now
AdvanceSlot(i, now) ==
    IF active[i] = 1 /\ animations[i] # NoAnim /\ IsManual(animations[i])
    THEN LET anim == animations[i]
             start == IF anim.startTime = 0 THEN now ELSE anim.startTime
             elapsed == now - start
             progress == Progress(elapsed, anim.duration)
             eased == Ease(anim.easing, progress)
             done == Completed(progress)
         IN  [active |-> IF done THEN 0 ELSE 1,
              value |-> IF done THEN R(0) ELSE Scaled(eased, anim.targetValue),
              anim |-> IF done THEN NoAnim
                       ELSE [anim EXCEPT !.startTime = start],
              observed |-> ~done,
              log |-> {<<TickKind(~observed[i], elapsed, anim.duration),
                          Scaled(Ease(anim.easing, progress), anim.targetValue)>>}]
    ELSE Untouched(i)

\* the useFrame callback of useStorageTrigger, the clock having advanced by d
FrameTick(d) ==
    /\ clock + d <= MaxClock
    /\ clock' = clock + d
    /\ active' = [i \in Slots |-> AdvanceSlot(i, clock + d).active]
    /\ values' = [i \in Slots |-> AdvanceSlot(i, clock + d).value]
    /\ animations' = [i \in Slots |-> AdvanceSlot(i, clock + d).anim]
    /\ observed' = [i \in Slots |-> AdvanceSlot(i, clock + d).observed]
    /\ poolOp' = [op |-> "tick", index |-> -1,
                  log |-> UNION {AdvanceSlot(i, clock + d).log : i \in Slots}]
    /\ UNCHANGED <<dataValues, dataDirty, springs, retired, renders, triggers>>
    /\ UNCHANGED <<trailVars, mirrorVars, easeVars, sceneVars>>

NextPool ==
    \/ \E options \in TriggerOptions : Trigger(options)
    \/ \E i \in Slots : \E v \in SpringValues : SpringUpdate(i, v)
    \/ \E i \in Slots : SpringComplete(i)
    \/ \E d \in 0 .. MaxClock : FrameTick(d)
    \/ RenderWithNewBuffers
    \/ \E g \in 1 .. MaxRenders : \E options \in TriggerOptions :
          StaleTrigger(g, options)
    \/ \E g \in 1 .. MaxRenders : \E i \in Slots : \E v \in SpringValues :
          RetiredSpringUpdate(g, i, v)
    \/ \E g \in 1 .. MaxRenders : \E i \in Slots : RetiredSpringComplete(g, i)


(***************************************************************************)
(* Binary floating point.  A natural number is the sequence of its digits  *)
(* to the base Limb, least significant first, without a leading zero: the  *)
(* integers of TLC are 32 bits wide and a float64 has a significand of 53. *)
(* A finite float is <<s, m, e>> and stands for s * m * 2^e: s is 1 or -1, *)
(* m is an odd natural number, or <<>> with e = 0 for the zero of sign s.  *)
(* Every operation computes the exact result and rounds it once, to the    *)
(* nearest float of its precision, ties to even, as IEEE 754 prescribes.   *)
(* The exponent range is not limited: no value of the model comes near the *)
(* largest or the smallest float64 or float32.                             *)
(***************************************************************************)
LimbBits == 14

Limb == 2^LimbBits

\* digit k of the natural number a, 0 beyond its length
LimbAt(a, k) == IF k >= 1 /\ k <= Len(a) THEN a[k] ELSE 0

\* a without leading zero digits
Strip(a) ==
    IF \A k \in 1 .. Len(a) : a[k] = 0 THEN <<>>
    ELSE SubSeq(a, 1, CHOOSE k \in 1 .. Len(a) :
                          a[k] # 0 /\ \A j \in k + 1 .. Len(a) : a[j] = 0)

\* the digits of a sequence of integers that are not yet below Limb, or are
\* negative, from position k on with carry c
RECURSIVE CarryFrom(_, _, _)
CarryFrom(raw, k, c) ==
    IF k > Len(raw) /\ c = 0 THEN <<>>
    ELSE LET Digit(s) == <<s % Limb>> \o CarryFrom(raw, k + 1, s \div Limb)
         IN  Digit(LimbAt(raw, k) + c)

\* the number of binary digits of the integer x >= 0
BitsOf(x) == IF x = 0 THEN 0 ELSE CHOOSE k \in 1 .. 31 : x \div 2^(k - 1) = 1

\* the natural number of the integer x >= 0
BNat(x) == Strip(<<x % Limb, (x \div Limb) % Limb, x \div (Limb * Limb)>>)

\* the number of binary digits of a
BitLen(a) ==
    IF Len(a) = 0 THEN 0 ELSE LimbBits * (Len(a) - 1) + BitsOf(a[Len(a)])

\* binary digit i of a, the lowest being digit 0
BBitAt(a, i) == (LimbAt(a, i \div LimbBits + 1) \div 2^(i % LimbBits)) % 2

\* a * 2^s
BShl(a, s) ==
    LET Shifted(q, r, hi) ==
            Strip([k \in 1 .. Len(a) + q + 1 |->
                      (LimbAt(a, k - q) % hi) * 2^r + LimbAt(a, k - q - 1) \div hi])
    IN  Shifted(s \div LimbBits, s % LimbBits, 2^(LimbBits - (s % LimbBits)))

\* a \div 2^s
BShr(a, s) ==
    LET Shifted(q, r, lo) ==
            Strip([k \in 1 .. (IF Len(a) > q THEN Len(a) - q ELSE 0) |->
                      LimbAt(a, k + q) \div lo
                      + (LimbAt(a, k + q + 1) % lo) * 2^(LimbBits - r)])
    IN  Shifted(s \div LimbBits, s % LimbBits, 2^(s % LimbBits))

\* a % 2^s is not 0
BLowBits(a, s) ==
    \E k \in 1 .. Len(a) :
        \/ k <= s \div LimbBits /\ a[k] # 0
        \/ k = s \div LimbBits + 1 /\ a[k] % 2^(s % LimbBits) # 0

\* the number of zero digits at the low end of a # 0
BTrailingZeros(a) ==
    LET InDigit(k) ==
            LimbBits * (k - 1)
            + (CHOOSE j \in 0 .. LimbBits - 1 :
                   a[k] % 2^(j + 1) # 0 /\ a[k] % 2^j = 0)
    IN  InDigit(CHOOSE j \in 1 .. Len(a) :
                    a[j] # 0 /\ \A i \in 1 .. j - 1 : a[i] = 0)

\* -1, 0, 1 as a < b, a = b, a > b
BCmp(a, b) ==
    IF Len(a) # Len(b) THEN (IF Len(a) > Len(b) THEN 1 ELSE -1)
    ELSE IF \A j \in 1 .. Len(a) : a[j] = b[j] THEN 0
    ELSE LET At(k) == IF a[k] > b[k] THEN 1 ELSE -1
         IN  At(CHOOSE j \in 1 .. Len(a) :
                    a[j] # b[j] /\ \A i \in j + 1 .. Len(a) : a[i] = b[i])

\* c * a + d for small integers c, d >= 0
BScale(a, c, d) ==
    Strip(CarryFrom([k \in 1 .. (IF Len(a) = 0 THEN 1 ELSE Len(a)) |->
                        c * LimbAt(a, k) + (IF k = 1 THEN d ELSE 0)], 1, 0))

BAdd(a, b) ==
    Strip(CarryFrom([k \in 1 .. (IF Len(a) > Len(b) THEN Len(a) ELSE Len(b)) |->
                        LimbAt(a, k) + LimbAt(b, k)], 1, 0))

\* a - b for a >= b
BSub(a, b) ==
    Strip(CarryFrom([k \in 1 .. Len(a) |-> a[k] - LimbAt(b, k)], 1, 0))

\* the sum of a[i] * b[k + 1 - i] from digit i of a on
RECURSIVE ConvAt(_, _, _, _)
ConvAt(a, b, k, i) ==
    IF i > Len(a) THEN 0
    ELSE a[i] * LimbAt(b, k + 1 - i) + ConvAt(a, b, k, i + 1)

\* a * b, one of them of at most 7 digits
BMul(a, b) ==
    LET Product(short, long) ==
            IF Len(short) = 0 THEN <<>>
            ELSE Strip(CarryFrom([k \in 1 .. Len(a) + Len(b) - 1 |->
                                     ConvAt(short, long, k, 1)], 1, 0))
    IN  IF Len(a) <= Len(b) THEN Product(a, b) ELSE Product(b, a)

\* Quotients and roots are found digit by digit on numbers below 2^58 that
\* are given by two digits to the base Wide, the high one first.
Wide == 2^(2 * LimbBits)

\* the low and the high digit to the base Wide of a < Wide^2
WideLow(a) == LimbAt(a, 1) + Limb * LimbAt(a, 2)

WideHigh(a) == LimbAt(a, 3) + Limb * LimbAt(a, 4)

\* the natural number of the digits h, l to the base Wide
BWide(h, l) == Strip(<<l % Limb, l \div Limb, h % Limb, h \div Limb>>)

\* n more binary digits of the quotient r / d, for r < d < 2^56: the digits
\* found, as an integer that continues q, and the remainder
DivDigit(q, h, l, dh, dl) ==
    IF h > dh \/ (h = dh /\ l >= dl)
    THEN IF l >= dl THEN <<2 * q + 1, h - dh, l - dl>>
         ELSE <<2 * q + 1, h - dh - 1, l - dl + Wide>>
    ELSE <<2 * q, h, l>>

RECURSIVE DivBits(_, _, _, _)
DivBits(s, dh, dl, n) ==
    IF n = 0 \/ s[1] < 0 THEN s
    ELSE IF n = 1
    THEN DivDigit(s[1], 2 * s[2] + (2 * s[3]) \div Wide, (2 * s[3]) % Wide, dh, dl)
    ELSE DivBits(DivBits(s, dh, dl, n \div 2), dh, dl, n - n \div 2)

\* (a * Wide^2) \div d and whether the division leaves a remainder, for
\* a < d < 2^56
BDivFraction(a, d) ==
    LET Both(q1, q2) == <<BWide(q1[1], q2[1]), q2[2] # 0 \/ q2[3] # 0>>
        Second(q1) ==
            Both(q1, DivBits(<<0, q1[2], q1[3]>>, WideHigh(d), WideLow(d),
                             2 * LimbBits))
    IN  Second(DivBits(<<0, WideHigh(a), WideLow(a)>>, WideHigh(d), WideLow(d),
                       2 * LimbBits))

\* One more binary digit of a square root: the remainder h, l with the next
\* digit pair appended is compared with u = 4 * root + 1, and n = 2 * root.
SqrtDigit(h, l, uh, ul, nh, nl) ==
    IF h > uh \/ (h = uh /\ l >= ul)
    THEN IF l >= ul THEN <<h - uh, l - ul, nh, nl + 1>>
         ELSE <<h - uh - 1, l - ul + Wide, nh, nl + 1>>
    ELSE <<h, l, nh, nl>>

SqrtStep(s, pair) ==
    SqrtDigit(4 * s[1] + (4 * s[2] + pair) \div Wide, (4 * s[2] + pair) % Wide,
              4 * s[3] + (4 * s[4] + 1) \div Wide, (4 * s[4] + 1) % Wide,
              2 * s[3] + (2 * s[4]) \div Wide, (2 * s[4]) % Wide)

\* n more binary digits of the square root of a, whose digit pairs i, i - 1, ...
\* are still to be read: s is the remainder rh, rl and the root th, tl so far
RECURSIVE SqrtBits(_, _, _, _)
SqrtBits(a, i, n, s) ==
    IF n = 0 \/ s[1] < 0 THEN s
    ELSE IF n = 1
    THEN SqrtStep(s, 2 * BBitAt(a, 2 * i + 1) + BBitAt(a, 2 * i))
    ELSE SqrtBits(a, i - n \div 2, n - n \div 2, SqrtBits(a, i, n \div 2, s))

\* the number of binary digits of the roots BSqrt finds
RootBits == 55

\* the whole part of the square root of a, for 2^(2 * RootBits - 2) <= a <
\* 2^(2 * RootBits), and whether a is not a square
BSqrt(a) ==
    LET Root(s) == <<BWide(s[3], s[4]), s[1] # 0 \/ s[2] # 0>>
    IN  Root(SqrtBits(a, RootBits - 1, RootBits, <<0, 0, 0, 0>>))

\* the float s * n * 2^e for a natural number n
Float(s, n, e) ==
    IF Len(n) = 0 THEN <<s, <<>>, 0>>
    ELSE LET Odd(t) == <<s, BShr(n, t), e + t>> IN Odd(BTrailingZeros(n))

\* the float of precision p nearest to s * (n + f) * 2^e, ties to even, where
\* 0 <= f < 1 and `inexact` tells whether f > 0; n has more than p digits when
\* inexact
RoundTo(p, s, n, e, inexact) ==
    LET Nearest(drop, kept) ==
            LET half == BBitAt(n, drop - 1) = 1
                rest == inexact \/ BLowBits(n, drop - 1)
                odd == LimbAt(kept, 1) % 2 = 1
            IN  IF half /\ (rest \/ odd) THEN BScale(kept, 1, 1) ELSE kept
        Dropping(drop) ==
            Float(s, IF drop <= 0 THEN n ELSE Nearest(drop, BShr(n, drop)),
                  IF drop <= 0 THEN e ELSE e + drop)
    IN  Dropping(BitLen(n) - p)

Float64Bits == 53

Float32Bits == 24

FZero == <<1, <<>>, 0>>

FOne == <<1, <<1>>, 0>>

IsZero(a) == Len(a[2]) = 0

\* -a
FNeg(a) == <<-a[1], a[2], a[3]>>

\* Math.abs
FAbs(a) == <<1, a[2], a[3]>>

\* Math.sign: 1, -1, or the zero itself
FSign(a) == IF IsZero(a) THEN a ELSE <<a[1], <<1>>, 0>>

\* the float of the integer n
FInt(n) == Float(IF n < 0 THEN -1 ELSE 1, BNat(IF n < 0 THEN -n ELSE n), 0)

\* a * b
FMul(a, b) ==
    IF IsZero(a) \/ IsZero(b) THEN <<a[1] * b[1], <<>>, 0>>
    ELSE IF b[2] = <<1>> THEN <<a[1] * b[1], a[2], a[3] + b[3]>>
    ELSE IF a[2] = <<1>> THEN <<a[1] * b[1], b[2], a[3] + b[3]>>
    ELSE RoundTo(Float64Bits, a[1] * b[1], BMul(a[2], b[2]), a[3] + b[3], FALSE)

\* a / b for b # 0
FDiv(a, b) ==
    IF IsZero(a) THEN <<a[1] * b[1], <<>>, 0>>
    ELSE IF b[2] = <<1>> THEN <<a[1] * b[1], a[2], a[3] - b[3]>>
    ELSE LET Rounded(la, lb, q) ==
                 RoundTo(Float64Bits, a[1] * b[1], q[1],
                         a[3] - b[3] + la - lb + 1 - 4 * LimbBits, q[2])
             Aligned(la, lb, l) ==
                 Rounded(la, lb, BDivFraction(BShl(a[2], l - la),
                                              BShl(b[2], l - lb + 1)))
             Lengths(la, lb) == Aligned(la, lb, IF la > lb THEN la ELSE lb)
         IN  Lengths(BitLen(a[2]), BitLen(b[2]))

\* a + b
FAdd(a, b) ==
    IF IsZero(a) /\ IsZero(b) THEN (IF a[1] = -1 /\ b[1] = -1 THEN a ELSE FZero)
    ELSE IF IsZero(a) THEN b
    ELSE IF IsZero(b) THEN a
    ELSE LET Sum(na, nb, e, cmp) ==
                 IF a[1] # b[1] /\ cmp = 0 THEN FZero
                 ELSE RoundTo(Float64Bits,
                              IF a[1] = b[1] \/ cmp > 0 THEN a[1] ELSE b[1],
                              IF a[1] = b[1] THEN BAdd(na, nb)
                              ELSE BSub(IF cmp > 0 THEN na ELSE nb,
                                        IF cmp > 0 THEN nb ELSE na),
                              e, FALSE)
             Aligned(na, nb, e) == Sum(na, nb, e, BCmp(na, nb))
             Near(e) == Aligned(BShl(a[2], a[3] - e), BShl(b[2], b[3] - e), e)
             Tops(ta, tb) ==
                 IF ta - tb > Float64Bits + 2 THEN a
                 ELSE IF tb - ta > Float64Bits + 2 THEN b
                 ELSE Near(IF a[3] < b[3] THEN a[3] ELSE b[3])
         IN  Tops(a[3] + BitLen(a[2]), b[3] + BitLen(b[2]))

\* a - b
FSub(a, b) == FAdd(a, FNeg(b))

\* a < b: the two zeros are equal; otherwise a - b is not zero for a # b, and
\* its sign is that of the exact difference
FLt(a, b) == ~(IsZero(a) /\ IsZero(b)) /\ a # b /\ FSub(a, b)[1] = -1

\* Math.sqrt for a >= 0
FSqrt(a) ==
    IF IsZero(a) THEN a
    ELSE LET Rounded(k, root) ==
                 RoundTo(Float64Bits, 1, root[1], (a[3] - k) \div 2, root[2])
             Shifted(k) == Rounded(k, BSqrt(BShl(a[2], k)))
             Even(k0) == Shifted(IF (a[3] - k0) % 2 = 0 THEN k0 ELSE k0 - 1)
         IN  Even(2 * RootBits - BitLen(a[2]))

\* Math.fround: the float32 nearest to a
Fround(a) ==
    IF BitLen(a[2]) <= Float32Bits THEN a
    ELSE RoundTo(Float32Bits, a[1], a[2], a[3], FALSE)

\* the float64 nearest to the rational r
F(r) == FDiv(FInt(r[1]), FInt(r[2]))

\* One step of the compensated sum of Math.hypot: summand = n * n -
\* compensation, preliminary = sum + summand, compensation = (preliminary -
\* sum) - summand, sum = preliminary. A state is <<sum, compensation>>.
KahanNext(sum, summand, preliminary) ==
    <<preliminary, FSub(FSub(preliminary, sum), summand)>>

KahanWith(sum, summand) == KahanNext(sum, summand, FAdd(sum, summand))

KahanStep(state, n) == KahanWith(state[1], FSub(FMul(n, n), state[2]))

HypotByMax(a, b, max) ==
    IF IsZero(max) THEN FZero
    ELSE FMul(FSqrt(KahanStep(KahanStep(<<FZero, FZero>>, FDiv(FAbs(a), max)),
                              FDiv(FAbs(b), max))[1]),
              max)

\* Math.hypot of two numbers, as V8 computes it: the absolute values are
\* divided by the larger one, their squares are added by a Kahan summation,
\* and the root of the sum is multiplied by the larger one
FHypot(a, b) ==
    HypotByMax(a, b, IF FLt(FAbs(a), FAbs(b)) THEN FAbs(b) ELSE FAbs(a))

\* a power that is 1 at base 0 for every exponent
FPowOneAtZero(a, g) ==
    IF IsZero(a) THEN FOne
    ELSE IF g = 0 THEN FOne ELSE IF g = 1 THEN a ELSE FMul(a, a)

\* Math.pow(a, g) for the exponents 0, 1 and 2: 1, a, and a * a rounded
FPow(a, g) == IF g = 0 THEN FOne ELSE IF g = 1 THEN a ELSE FMul(a, a)

\* clamp(value, min, max) of @/utils/math, which is not among the files of
\* the repository, for finite numbers and min <= max, as the accumulator calls
\* it: there the usual ways to write it (ClampForms) return the same number
FClamp(value, min, max) ==
    IF FLt(value, min) THEN (IF FLt(max, min) THEN max ELSE min)
    ELSE IF FLt(max, value) THEN max ELSE value

RClamp(value, min, max) == RMin(RMax(value, min), max)

(***************************************************************************)
(* The trail field accumulator: useGridTrailTexture.                       *)
(***************************************************************************)
\* the options of the hook
size == GridSize

Radius == <<1, 1>>

Strength == <<1, 2>>

Decay == <<1, 2>>

InfluenceGain == <<1, 1>>

dimensions == size * size

Cells == 0 .. (dimensions - 1)

\* rawPointerRef.current is null; canvasBoundsRef.current is null
NoPointer == <<>>

NoBounds == [none |-> TRUE]

\* the rectangles canvas.getBoundingClientRect() returns
Rects == { [left |-> 1, top |-> 1, width |-> 4, height |-> 4],
           [left |-> 0, top |-> 0, width |-> 2048, height |-> 2] }

\* the clientX, clientY of pointer events
ClientPoints == { <<1, 1>>, <<2, 1>>, <<4, 4>>, <<-1, 3>> }

\* regenerateGrid: a zeroed RGBA float texture
ZeroGrid == [c \in Cells |-> <<FZero, FZero, FZero, FZero>>]

\* history: `used` is the velocity a tick with a sample computed, and the
\* clientX, clientY of the event for a pointer-move; the kind of a pointer-move
\* is "replace" when it overwrites a sample that no tick has consumed
NoTrailOp == [op |-> "init", kind |-> "", used |-> <<R(0), R(0)>>]

\* the values of the influenceGamma option other than its default
Gammas == {0, 1, 2}

InitTrail ==
    /\ gamma = InfluenceGamma
    /\ canvas \in BOOLEAN
    /\ layout \in Rects
    /\ mounted = FALSE
    /\ hasTexture = FALSE
    /\ listening = FALSE
    /\ grid = ZeroGrid
    /\ bounds = NoBounds
    /\ rawPointer = NoPointer
    /\ pointer = <<R(0), R(0)>>
    /\ velocity = <<R(0), R(0)>>
    /\ consumed = NoPointer
    /\ raised = FALSE
    /\ ticks = 0
    /\ trailOp = NoTrailOp
    /\ twinVelocity = <<R(0), R(0)>>
    /\ twinGrid = ZeroGrid
    /\ differed = FALSE

\* the hook with any of the values of influenceGamma
InitTrailGamma ==
    /\ gamma \in Gammas
    /\ canvas \in BOOLEAN
    /\ layout \in Rects
    /\ mounted = FALSE
    /\ hasTexture = FALSE
    /\ listening = FALSE
    /\ grid = ZeroGrid
    /\ bounds = NoBounds
    /\ rawPointer = NoPointer
    /\ pointer = <<R(0), R(0)>>
    /\ velocity = <<R(0), R(0)>>
    /\ consumed = NoPointer
    /\ raised = FALSE
    /\ ticks = 0
    /\ trailOp = NoTrailOp
    /\ twinVelocity = <<R(0), R(0)>>
    /\ twinGrid = ZeroGrid
    /\ differed = FALSE

\* an updateCanvasBounds that never assigns the reference
UpdateCanvasBoundsNoAssign(c, b, rect) == b

\* updateCanvasBounds: the new canvasBoundsRef.current, gl.domElement being
\* there (c) or not, the reference holding b and the canvas being at rect
UpdateCanvasBounds(c, b, rect) == IF c THEN rect ELSE b

\* the hook has been unmounted: the effect ran and its cleanup was the last
\* thing to run
Unmounted == hasTexture /\ ~mounted

\* the part of the hook's state that decides whether a pointer-move finds
\* bounds: the canvas element and where it is, the effect and its listeners,
\* the cached bounds, and whether a handler has thrown
Surface ==
    [canvas |-> canvas, layout |-> layout, mounted |-> mounted,
     hasTexture |-> hasTexture, listening |-> listening, bounds |-> bounds,
     raised |-> raised]

\* the surface becomes s
SurfaceBecomes(s) ==
    /\ canvas' = s.canvas
    /\ layout' = s.layout
    /\ mounted' = s.mounted
    /\ hasTexture' = s.hasTexture
    /\ listening' = s.listening
    /\ bounds' = s.bounds
    /\ raised' = s.raised

\* the body of the useEffect: updateCanvasBounds(); regenerateGrid(), which
\* sets dataTextureRef; then the canvas listeners if there is a canvas
SurfaceAfterEffect(s) ==
    [s EXCEPT !.mounted = TRUE,
              !.bounds = UpdateCanvasBounds(s.canvas, s.bounds, s.layout),
              !.hasTexture = TRUE,
              !.listening = s.canvas]

\* the function the effect returns: the listeners are removed
SurfaceAfterCleanup(s) == [s EXCEPT !.mounted = FALSE, !.listening = FALSE]

\* updateCanvasBounds as the listener of resize and scroll, the canvas having
\* moved to rectangle r
SurfaceAfterResize(s, r) ==
    [s EXCEPT !.layout = r,
              !.bounds = UpdateCanvasBounds(s.canvas, s.bounds, r)]

\* the bounds handlePointerMove works with: the cached ones, or if there are
\* none those that updateCanvasBounds() caches on demand
ResolvedBounds(s) ==
    IF s.bounds = NoBounds THEN UpdateCanvasBounds(s.canvas, s.bounds, s.layout)
    ELSE s.bounds

\* handlePointerMove: throw new Error('Canvas bounds not found') if there are
\* still no bounds
SurfaceAfterMove(s) ==
    IF ResolvedBounds(s) = NoBounds THEN [s EXCEPT !.raised = TRUE]
    ELSE [s EXCEPT !.bounds = ResolvedBounds(s)]

\* the body of the useEffect: the grid is a new zeroed one
EffectBody ==
    /\ SurfaceBecomes(SurfaceAfterEffect(Surface))
    /\ grid' = ZeroGrid
    /\ twinGrid' = ZeroGrid
    /\ UNCHANGED <<gamma, rawPointer, pointer, velocity, consumed, ticks,
                   twinVelocity, differed>>

\* the first run of the effect, after the first render
MountEffect ==
    /\ ~mounted /\ ~hasTexture
    /\ EffectBody
    /\ trailOp' = [NoTrailOp EXCEPT !.op = "mount"]
    /\ UNCHANGED <<poolVars, mirrorVars, easeVars, sceneVars>>

\* a dependency of the effect (gl) has changed: the cleanup removes the
\* listeners and the body runs again; the grid is a new zeroed one, the
\* references keep the sample, the previous position and the velocity
EffectRerun ==
    /\ mounted
    /\ EffectBody
    /\ trailOp' = [NoTrailOp EXCEPT !.op = "rerun"]
    /\ UNCHANGED <<poolVars, mirrorVars, easeVars, sceneVars>>

\* the function the effect returns, called when the hook is unmounted: the
\* six listeners are removed; the frame callback is gone with the component
EffectCleanup ==
    /\ mounted
    /\ SurfaceBecomes(SurfaceAfterCleanup(Surface))
    /\ trailOp' = [NoTrailOp EXCEPT !.op = "unmount"]
    /\ UNCHANGED <<gamma, grid, rawPointer, pointer, velocity, consumed, ticks,
                   twinVelocity, twinGrid, differed>>
    /\ UNCHANGED <<poolVars, mirrorVars, easeVars, sceneVars>>

\* a sample that is scaled and not clamped
NormalizedSampleUnclamped(cx, cy, b) ==
    <<RMul(RDiv(R(cx - b.left), R(b.width)), R(2)),
      RMul(RDiv(R(cy - b.top), R(b.height)), R(2))>>

\* the sample handlePointerMove stores for an event at (cx, cy) within b
NormalizedSample(cx, cy, b) ==
    LET x == RDiv(R(cx - b.left), R(b.width))
        y == RDiv(R(cy - b.top), R(b.height))
    IN  <<RClamp(RMul(x, R(2)), R(0), R(2)), RClamp(RMul(y, R(2)), R(0), R(2))>>

\* handlePointerMove(event), a listener of the canvas
HandlePointerMove(cx, cy) ==
    /\ listening
    /\ SurfaceBecomes(SurfaceAfterMove(Surface))
    /\ IF ResolvedBounds(Surface) = NoBounds
       THEN \* throw new Error('Canvas bounds not found')
            /\ trailOp' = [NoTrailOp EXCEPT !.op = "move", !.kind = "throw"]
            /\ UNCHANGED rawPointer
       ELSE /\ rawPointer' = NormalizedSample(cx, cy, ResolvedBounds(Surface))
            /\ trailOp' = [op |-> "move",
                           kind |-> IF rawPointer # NoPointer
                                       /\ rawPointer # consumed
                                    THEN "replace" ELSE "store",
                           used |-> <<R(cx), R(cy)>>]
    /\ UNCHANGED <<gamma, grid, pointer, velocity, consumed, ticks, twinVelocity,
                   twinGrid, differed>>
    /\ UNCHANGED <<poolVars, mirrorVars, easeVars, sceneVars>>

\* handlePointerLeave, a listener of the canvas
HandlePointerLeave ==
    /\ listening
    /\ rawPointer' = NoPointer
    /\ velocity' = <<R(0), R(0)>>
    /\ twinVelocity' = <<R(0), R(0)>>
    /\ UNCHANGED <<twinGrid, differed>>
    /\ trailOp' = [NoTrailOp EXCEPT !.op = "leave"]
    /\ UNCHANGED <<gamma, canvas, layout, mounted, hasTexture, listening, grid, bounds,
                   pointer, consumed, raised, ticks>>
    /\ UNCHANGED <<poolVars, mirrorVars, easeVars, sceneVars>>

\* resetVelocity, the listener of pointerup on the canvas
HandlePointerUp ==
    /\ listening
    /\ velocity' = <<R(0), R(0)>>
    /\ twinVelocity' = <<R(0), R(0)>>
    /\ UNCHANGED <<twinGrid, differed>>
    /\ trailOp' = [NoTrailOp EXCEPT !.op = "up"]
    /\ UNCHANGED <<gamma, canvas, layout, mounted, hasTexture, listening, grid, bounds,
                   rawPointer, pointer, consumed, raised, ticks>>
    /\ UNCHANGED <<poolVars, mirrorVars, easeVars, sceneVars>>

\* resetVelocity, the listener of blur on the window
HandleBlur ==
    /\ mounted
    /\ velocity' = <<R(0), R(0)>>
    /\ twinVelocity' = <<R(0), R(0)>>
    /\ UNCHANGED <<twinGrid, differed>>
    /\ trailOp' = [NoTrailOp EXCEPT !.op = "blur"]
    /\ UNCHANGED <<gamma, canvas, layout, mounted, hasTexture, listening, grid, bounds,
                   rawPointer, pointer, consumed, raised, ticks>>
    /\ UNCHANGED <<poolVars, mirrorVars, easeVars, sceneVars>>

\* updateCanvasBounds, the listener of resize and scroll on the window, the
\* canvas having moved to rectangle r
HandleResize(r) ==
    /\ mounted
    /\ SurfaceBecomes(SurfaceAfterResize(Surface, r))
    /\ trailOp' = [NoTrailOp EXCEPT !.op = "resize"]
    /\ UNCHANGED <<gamma, grid, rawPointer, pointer, velocity, consumed, ticks,
                   twinVelocity, twinGrid, differed>>
    /\ UNCHANGED <<poolVars, mirrorVars, easeVars, sceneVars>>

\* the steps of the hook that act on the surface, and the surfaces they lead
\* to from those of a hook that has not run its effect yet; a step whose
\* handler cannot run (the effect of a mounted hook, a listener that is not
\* registered) leaves the surface as it is
SurfaceEvents ==
    {[op |-> o] : o \in {"mount", "rerun", "cleanup", "move"}}
    \cup {[op |-> "resize", rect |-> r] : r \in Rects}

SurfaceStep(s, ev) ==
    CASE ev.op = "mount" /\ ~s.mounted /\ ~s.hasTexture -> SurfaceAfterEffect(s)
      [] ev.op = "rerun" /\ s.mounted -> SurfaceAfterEffect(s)
      [] ev.op = "cleanup" /\ s.mounted -> SurfaceAfterCleanup(s)
      [] ev.op = "resize" /\ s.mounted -> SurfaceAfterResize(s, ev.rect)
      [] ev.op = "move" /\ s.listening -> SurfaceAfterMove(s)
      [] OTHER -> s

InitialSurfaces ==
    {[canvas |-> c, layout |-> l, mounted |-> FALSE, hasTexture |-> FALSE,
      listening |-> FALSE, bounds |-> NoBounds, raised |-> FALSE] :
        c \in BOOLEAN, l \in Rects}

RECURSIVE SurfacesFrom(_)
SurfacesFrom(seen) ==
    LET more == seen \cup {SurfaceStep(s, ev) : s \in seen, ev \in SurfaceEvents}
    IN  IF more = seen THEN seen ELSE SurfacesFrom(more)

\* every surface a sequence of such steps leads to
SurfacesReached == SurfacesFrom(InitialSurfaces)

\* the options as the float64 numbers of the program
DecayFloat == F(Decay)

ScaleFloat == FMul(F(InfluenceGain), F(Strength))

\* data[i] *= decay on an element of the Float32Array: the product is a
\* float64 and the element holds the float32 nearest to it
Decayed(v) == Fround(FMul(v, DecayFloat))

\* data[i] += d on an element of the Float32Array
Added(v, d) == Fround(FAdd(v, d))

\* data[i] *= decay on the first three channels of a cell
DecayCell(cell) ==
    <<Decayed(cell[1]), Decayed(cell[2]), Decayed(cell[3]), cell[4]>>

\* a tick without a sample that returns before the decay loop
DecayOnlyNoDecay(g) == g

\* the decay-only branch of the frame loop
DecayOnly(g) == [c \in Cells |-> DecayCell(g[c])]

\* pointerVelocityRef.current = rawPointer - pointerRef.current, per axis
TickVelocity(raw, prev) == <<RSub(raw[1], prev[1]), RSub(raw[2], prev[2])>>

\* the brush radius and the brush position in grid coordinates
mouseRadius == RMul(R(size), Radius)

CellX(ptr) ==
    RSub(RMul(RMul(ptr[1], <<1, 2>>), R(size)), RMul(mouseRadius, <<1, 2>>))

CellY(ptr) ==
    RAdd(RMul(RMul(RSub(R(2), ptr[2]), <<1, 2>>), R(size)),
         RMul(mouseRadius, <<1, 2>>))

\* the squared distance of the centre of cell (x, y) to the brush
Dist(x, y, ptr) ==
    LET dx == RSub(CellX(ptr), <<2 * x + 1, 2>>)
        dy == RSub(CellY(ptr), <<2 * y + 1, 2>>)
    IN  RAdd(RMul(dx, dx), RMul(dy, dy))

\* a brush test without the test for the exact centre
InBrushWithCentre(x, y, ptr) ==
    RLt(Dist(x, y, ptr), RMul(mouseRadius, mouseRadius))

\* dist < distMax && dist > 0
InBrush(x, y, ptr) ==
    /\ RLt(Dist(x, y, ptr), RMul(mouseRadius, mouseRadius))
    /\ RLt(R(0), Dist(x, y, ptr))

\* force = clamp(mouseRadius / Math.sqrt(dist), 0, 10) of a cell in the brush
Force(x, y, ptr) ==
    FClamp(FDiv(F(mouseRadius), FSqrt(F(Dist(x, y, ptr)))), FInt(0), FInt(10))

\* vxCurved and vyCurved: Math.sign(v) * Math.pow(Math.abs(v), gamma)
SignedPow(v, g) == FMul(FSign(v), FPow(FAbs(v), g))

\* len = Math.hypot(vxCurved, vyCurved) || 1
LenOrOne(hyp) == IF IsZero(hyp) THEN FOne ELSE hyp

\* <<speedCurved, ndx, ndy>>
Normalized(speedCurved, vxCurved, vyCurved, len) ==
    <<speedCurved, FDiv(vxCurved, len), FDiv(vyCurved, len)>>

Shaped(speedCurved, vxCurved, vyCurved) ==
    Normalized(speedCurved, vxCurved, vyCurved,
               LenOrOne(FHypot(vxCurved, vyCurved)))

CurvedInGrid(g, vxGrid, vyGrid) ==
    Shaped(FPow(FHypot(vxGrid, vyGrid), g), SignedPow(vxGrid, g),
           SignedPow(vyGrid, g))

\* the velocity vel in grid space, shaped by the exponent g of influenceGamma:
\* speedCurved, ndx and ndy of the deposit loop
Curved(g, vel) ==
    CurvedInGrid(g, FMul(F(vel[1]), F(<<size, 2>>)),
                 FMul(FNeg(F(vel[2])), F(<<size, 2>>)))

\* the three amounts for scale = influenceGain * strength * force and
\* dispBase = scale * speedCurved
Amounts(curved, scale, dispBase) ==
    <<FMul(dispBase, FNeg(curved[2])), FMul(dispBase, curved[3]),
      FMul(scale, curved[1])>>

AmountsAtScale(curved, scale) == Amounts(curved, scale, FMul(scale, curved[1]))

\* what the body of the deposit loop adds to the three channels of a cell in
\* the brush, for the force of the cell and the shaped velocity of the tick
Deposit(force, curved) == AmountsAtScale(curved, FMul(ScaleFloat, force))

\* The samples a pointer-move of the model can store, the positions a tick
\* can find as the previous one, and the velocities of a tick.
Samples == { NormalizedSample(p[1], p[2], b) : p \in ClientPoints, b \in Rects }

Velocities ==
    { TickVelocity(p, q) : p \in Samples, q \in Samples \cup {<<R(0), R(0)>>} }

\* The forces and shaped velocities of these samples and velocities, computed
\* once; ForceAt and CurvedAt look a value up and compute it when it is not
\* among them.
Forces ==
    [k \in { k \in Cells \X Samples : InBrush(k[1] % size, k[1] \div size, k[2]) }
        |-> Force(k[1] % size, k[1] \div size, k[2])]

Curves == [k \in Gammas \X Velocities |-> Curved(k[1], k[2])]

ForceAt(x, y, ptr) ==
    IF <<x + size * y, ptr>> \in DOMAIN Forces THEN Forces[<<x + size * y, ptr>>]
    ELSE Force(x, y, ptr)

CurvedAt(g, vel) ==
    IF <<g, vel>> \in DOMAIN Curves THEN Curves[<<g, vel>>] ELSE Curved(g, vel)

\* what the deposit loop adds to the cell (x, y) of the brush
DepositAt(g, x, y, ptr, vel) == Deposit(ForceAt(x, y, ptr), CurvedAt(g, vel))

\* data[index] += ..., data[index + 1] += ..., data[index + 2] += ...
AddDeposit(faded, add) ==
    <<Added(faded[1], add[1]), Added(faded[2], add[2]),
      Added(faded[3], add[3]), faded[4]>>

\* the deposit loop at the cell (x, y), faded by the decay loop
DepositOn(faded, x, y, ptr, vel) ==
    IF InBrush(x, y, ptr)
    THEN AddDeposit(faded, DepositAt(gamma, x, y, ptr, vel))
    ELSE faded

\* one cell after the decay loop and the deposit loop
DecayAndDeposit(cell, c, ptr, vel) ==
    DepositOn(DecayCell(cell), c % size, c \div size, ptr, vel)

EPS == <<1, 1000>>

\* a velocity component that is decayed and never snapped to 0
SettleComponentNoSnap(v) == RMul(v, Decay)

\* one component of the velocity after the tick: decayed, and 0 below EPS
SettleComponent(v) ==
    LET decayed == RMul(v, Decay)
    IN  IF RLt(RAbs(decayed), EPS) THEN R(0) ELSE decayed

\* a velocity that is left as stored when the sample has not moved
VelocityUsedKeepsStored(stored, raw, prev) ==
    IF raw = prev THEN stored ELSE TickVelocity(raw, prev)

\* the value of pointerVelocityRef.current that the deposit loop reads: the
\* tick has overwritten the stored value with the delta of the positions
VelocityUsed(stored, raw, prev) == TickVelocity(raw, prev)

\* the grid g after a tick with the sample raw, for a run whose stored
\* velocity is `stored` and whose previous position is prev
GridAfterSample(g, stored, raw, prev) ==
    [c \in Cells |->
        DecayAndDeposit(g[c], c, raw, VelocityUsed(stored, raw, prev))]

\* the useFrame callback of useGridTrailTexture
TrailTick ==
    /\ ~Unmounted
    /\ ticks < MaxTicks
    /\ ticks' = ticks + 1
    /\ IF ~hasTexture
       THEN \* if (!dt) return
            /\ trailOp' = [NoTrailOp EXCEPT !.op = "tick", !.kind = "skip"]
            /\ UNCHANGED <<grid, pointer, velocity, consumed>>
            /\ UNCHANGED <<twinVelocity, twinGrid, differed>>
       ELSE IF rawPointer = NoPointer
       THEN /\ grid' = DecayOnly(grid)
            /\ twinGrid' = DecayOnly(twinGrid)
            /\ differed' = (twinVelocity # velocity)
            /\ trailOp' = [NoTrailOp EXCEPT !.op = "tick", !.kind = "decay"]
            /\ UNCHANGED <<pointer, velocity, consumed, twinVelocity>>
       ELSE LET vel == VelocityUsed(velocity, rawPointer, pointer)
                twinVel == VelocityUsed(twinVelocity, rawPointer, pointer)
            IN
            /\ pointer' = rawPointer
            /\ grid' = GridAfterSample(grid, velocity, rawPointer, pointer)
            /\ twinGrid' = \* the same function of the arguments of the second
                            \* run, evaluated once when they are those of the first
                            IF twinGrid = grid /\ twinVel = vel THEN grid'
                            ELSE GridAfterSample(twinGrid, twinVelocity,
                                                 rawPointer, pointer)
            /\ velocity' = <<SettleComponent(vel[1]), SettleComponent(vel[2])>>
            /\ twinVelocity' = <<SettleComponent(twinVel[1]),
                                 SettleComponent(twinVel[2])>>
            /\ differed' = (twinVelocity # velocity)
            /\ consumed' = rawPointer
            /\ trailOp' = [op |-> "tick", kind |-> "deposit", used |-> vel]
    /\ UNCHANGED <<gamma, canvas, layout, mounted, hasTexture, listening, bounds,
                   rawPointer, raised>>
    /\ UNCHANGED <<poolVars, mirrorVars, easeVars, sceneVars>>

\* the stored velocity of the second run is set to another value: from here
\* on the two runs differ in the stored velocity only
TwinVelocities == { <<R(1), R(-1)>> }

PerturbTwin(v) ==
    /\ mounted
    /\ twinVelocity # v
    /\ twinVelocity' = v
    /\ UNCHANGED <<gamma, canvas, layout, mounted, hasTexture, listening, grid,
                   bounds, rawPointer, pointer, velocity, consumed, raised, ticks,
                   trailOp, twinGrid, differed>>
    /\ UNCHANGED <<poolVars, mirrorVars, easeVars, sceneVars>>

NextTrail ==
    \/ MountEffect
    \/ EffectRerun
    \/ EffectCleanup
    \/ \E p \in ClientPoints : HandlePointerMove(p[1], p[2])
    \/ HandlePointerLeave
    \/ HandlePointerUp
    \/ HandleBlur
    \/ \E r \in Rects : HandleResize(r)
    \/ TrailTick

(***************************************************************************)
(* The vanilla pointer mirror: createPointerUniform.                       *)
(***************************************************************************)
\* options.initial
Initials == { <<R(0), R(0)>>, <<R(3), R(-2)>> }

\* the numbers Infinity and -Infinity; NaN is <<0, 0>>
PosInf == <<1, 0>>

NegInf == <<-1, 0>>

IsFinite(a) == a[2] # 0

\* a < b on numbers: false when one of them is NaN
JLt(a, b) ==
    IF a = NaN \/ b = NaN THEN FALSE
    ELSE IF IsFinite(a) /\ IsFinite(b) THEN RLt(a, b)
    ELSE a # b /\ (a = NegInf \/ b = PosInf)

\* Math.min, Math.max: NaN when an argument is NaN
JMin(a, b) == IF a = NaN \/ b = NaN THEN NaN ELSE IF JLt(b, a) THEN b ELSE a

JMax(a, b) == IF a = NaN \/ b = NaN THEN NaN ELSE IF JLt(a, b) THEN b ELSE a

\* n / d for integers n, d >= 0 as numbers: d is a width or a height, and a
\* division by 0 gives Infinity, -Infinity or (0 / 0) NaN
JDiv(n, d) ==
    IF d # 0 THEN RDiv(R(n), R(d))
    ELSE IF n = 0 THEN NaN ELSE IF n > 0 THEN PosInf ELSE NegInf

\* 1 - v
OneMinus(v) ==
    IF IsFinite(v) THEN RSub(R(1), v)
    ELSE IF v = NaN THEN NaN ELSE IF v = PosInf THEN NegInf ELSE PosInf

\* v * 2 - 1
TwiceMinusOne(v) == IF IsFinite(v) THEN RSub(RMul(v, R(2)), R(1)) ELSE v

\* clamp of @/utils/math is not among the files of the repository. The
\* accumulator calls it as clamp(value, min, max); these are the usual ways
\* to write such a function, and the build has one of them:
\*   Math.min(Math.max(value, min), max)
\*   Math.max(min, Math.min(value, max))
\*   value < min ? min : value > max ? max : value
\* For finite arguments with min <= max the three return the same number
\* (RClamp); they differ when min > max or an argument is NaN.
ClampForms == {"minOfMax", "maxOfMin", "compare"}

ClampAs(form, value, min, max) ==
    CASE form = "minOfMax" -> JMin(JMax(value, min), max)
      [] form = "maxOfMin" -> JMax(min, JMin(value, max))
      [] form = "compare" ->
            IF JLt(value, min) THEN min
            ELSE IF JLt(max, value) THEN max ELSE value

\* the zero-to-one coordinates updateFromZeroOne is called with (any number)
ZeroOnes == { <<-1, 1>>, <<0, 1>>, <<1, 4>>, <<1, 1>>, <<7, 4>>, NaN }

\* the clientX, clientY of the events handlePointerMove is called with
MirrorClients == { -3, 0, 1, 3, 9 }

\* event.currentTarget: none, or an element and its bounding rectangle; an
\* element that is not rendered has a rectangle of width and height 0
NoTarget == [none |-> TRUE]

Targets == { NoTarget, [left |-> 1, top |-> 1, width |-> 4, height |-> 2],
             [left |-> 1, top |-> 1, width |-> 0, height |-> 0] }

\* the rectangle of options.element, and window.innerWidth / innerHeight
ElementRect == [left |-> 0, top |-> 0, width |-> 2, height |-> 2]

WindowInner == [left |-> 0, top |-> 0, width |-> 8, height |-> 4]

InitMirror ==
    /\ clampForm \in ClampForms
    /\ element \in BOOLEAN
    /\ mPointer \in Initials
    /\ mUniform = mPointer
    /\ mirrorOp = [op |-> "init", x |-> R(0), y |-> R(0)]

MirrorIdle ==
    /\ clampForm = "minOfMax"
    /\ element = FALSE
    /\ mPointer = <<R(0), R(0)>>
    /\ mUniform = mPointer
    /\ mirrorOp = [op |-> "init", x |-> R(0), y |-> R(0)]

\* updateFromZeroOne(x, y): the tracked vector and the uniform it leaves; the
\* arguments of clamp are in the order of the call, clamp(-1, x * 2 - 1, 1)
UpdateFromZeroOne(x, y) ==
    LET ndcX == ClampAs(clampForm, R(-1), TwiceMinusOne(x), R(1))
        ndcY == ClampAs(clampForm, R(-1), TwiceMinusOne(y), R(1))
        set == <<ndcX, ndcY>>
    IN  [pointer |-> set, uniform |-> set]

\* a direct call of updateFromZeroOne
CallUpdateFromZeroOne(x, y) ==
    /\ mPointer' = UpdateFromZeroOne(x, y).pointer
    /\ mUniform' = UpdateFromZeroOne(x, y).uniform
    /\ mirrorOp' = [op |-> "update", x |-> x, y |-> y]
    /\ UNCHANGED <<clampForm, element>>
    /\ UNCHANGED <<poolVars, trailVars, easeVars, sceneVars>>

\* the rectangle handlePointerMove measures against:
\* (event.currentTarget ?? element)?.getBoundingClientRect(), else the window
MeasuredRect(target) ==
    IF target # NoTarget THEN target
    ELSE IF element THEN ElementRect
    ELSE WindowInner

\* handlePointerMove(event) of the mirror
MirrorPointerMove(cx, cy, target) ==
    LET b == MeasuredRect(target)
        x == JDiv(cx - b.left, b.width)
        y == OneMinus(JDiv(cy - b.top, b.height))
    IN  /\ mPointer' = UpdateFromZeroOne(x, y).pointer
        /\ mUniform' = UpdateFromZeroOne(x, y).uniform
        /\ mirrorOp' = [op |-> "move", x |-> x, y |-> y]
        /\ UNCHANGED <<clampForm, element>>
        /\ UNCHANGED <<poolVars, trailVars, easeVars, sceneVars>>

NextMirror ==
    \/ \E p \in ZeroOnes : \E q \in ZeroOnes : CallUpdateFromZeroOne(p, q)
    \/ \E cx \in MirrorClients : \E cy \in MirrorClients : \E t \in Targets :
          MirrorPointerMove(cx, cy, t)

(***************************************************************************)
(* The easing curves of the frame loop as a function: a curve is applied   *)
(* to two progress values of [0, 1].                                       *)
(***************************************************************************)
EaseSteps == 2^EaseBits

\* the progress values k / EaseSteps of [0, 1]; 1/2 is one of them
ProgressGrid == { Norm(k, EaseSteps) : k \in 0 .. EaseSteps }

\* easedProgress is not computed yet
NotEased == <<>>

InitEase ==
    /\ curve \in ManualEasings
    /\ pLow \in ProgressGrid
    /\ pHigh \in { q \in ProgressGrid : RLe(pLow, q) }
    /\ easedLow = NotEased
    /\ easedHigh = NotEased

EaseIdle ==
    /\ curve = "linear"
    /\ pLow = R(0)
    /\ pHigh = R(0)
    /\ easedLow = NotEased
    /\ easedHigh = NotEased

\* the easing step of the frame loop, for the two progress values
ApplyEase ==
    /\ easedLow = NotEased
    /\ easedLow' = Ease(curve, pLow)
    /\ easedHigh' = Ease(curve, pHigh)
    /\ UNCHANGED <<curve, pLow, pHigh>>
    /\ UNCHANGED <<poolVars, trailVars, mirrorVars, sceneVars>>

NextEase == ApplyEase


(***************************************************************************)
(* The scene: WebGPUScene, its canvasFrameloop state and the gl factory    *)
(* that the Canvas calls to get a renderer.                                *)
(***************************************************************************)
\* 'always' | 'demand' | 'never'
Frameloops == {"always", "demand", "never"}

\* frameloop = 'always' when the prop is left out
FrameloopDefault == "always"

InitCalls == 1 .. MaxInits

NoInit == [status |-> "none", frameloop |-> "never", instance |-> 0]

NoSceneOp == [op |-> "init", index |-> 0]

\* no scene is mounted
InitScene ==
    /\ sceneMounted = FALSE
    /\ mounts = 0
    /\ frameloopProp = FrameloopDefault
    /\ canvasFrameloop = "never"
    /\ inits = [k \in InitCalls |-> NoInit]
    /\ sceneOp = NoSceneOp

\* the first render of <WebGPUScene frameloop={f}>: useState('never')
SceneMount(f) ==
    /\ ~sceneMounted
    /\ mounts < MaxMounts
    /\ sceneMounted' = TRUE
    /\ mounts' = mounts + 1
    /\ frameloopProp' = f
    /\ canvasFrameloop' = "never"
    /\ sceneOp' = [op |-> "mount", index |-> 0]
    /\ UNCHANGED inits
    /\ UNCHANGED <<poolVars, trailVars, mirrorVars, easeVars>>

\* a render with another value of the frameloop prop
SceneRender(f) ==
    /\ sceneMounted
    /\ f # frameloopProp
    /\ frameloopProp' = f
    /\ sceneOp' = [op |-> "render", index |-> 0]
    /\ UNCHANGED <<sceneMounted, mounts, canvasFrameloop, inits>>
    /\ UNCHANGED <<poolVars, trailVars, mirrorVars, easeVars>>

\* the scene is unmounted: its state is gone
SceneUnmount ==
    /\ sceneMounted
    /\ sceneMounted' = FALSE
    /\ sceneOp' = [op |-> "unmount", index |-> 0]
    /\ UNCHANGED <<mounts, frameloopProp, canvasFrameloop, inits>>
    /\ UNCHANGED <<poolVars, trailVars, mirrorVars, easeVars>>

\* the first call of the factory that has not been made yet
NextCall == CHOOSE k \in InitCalls :
                inits[k].status = "none" /\ \A j \in 1 .. k - 1 : inits[j].status # "none"

\* a factory that sets the loop mode before it awaits init()
GlFactoryCallSetsFirst ==
    /\ sceneMounted
    /\ \E k \in InitCalls : inits[k].status = "none"
    /\ inits' = [inits EXCEPT ![NextCall] =
                    [status |-> "pending", frameloop |-> frameloopProp,
                     instance |-> mounts]]
    /\ canvasFrameloop' = frameloopProp
    /\ sceneOp' = [op |-> "gl", index |-> NextCall]
    /\ UNCHANGED <<sceneMounted, mounts, frameloopProp>>
    /\ UNCHANGED <<poolVars, trailVars, mirrorVars, easeVars>>

\* the Canvas calls gl: new WebGPURenderer(props), then renderer.init() is
\* awaited; the closure is the one of the latest render
GlFactoryCall ==
    /\ sceneMounted
    /\ \E k \in InitCalls : inits[k].status = "none"
    /\ inits' = [inits EXCEPT ![NextCall] =
                    [status |-> "pending", frameloop |-> frameloopProp,
                     instance |-> mounts]]
    /\ sceneOp' = [op |-> "gl", index |-> NextCall]
    /\ UNCHANGED <<sceneMounted, mounts, frameloopProp, canvasFrameloop>>
    /\ UNCHANGED <<poolVars, trailVars, mirrorVars, easeVars>>

\* renderer.init() of call k resolves: setCanvasFrameloop(frameloop), which
\* changes the state of the instance that made the call if it is still mounted
InitResolve(k) ==
    /\ inits[k].status = "pending"
    /\ inits' = [inits EXCEPT ![k].status = "resolved"]
    /\ canvasFrameloop' =
          IF sceneMounted /\ inits[k].instance = mounts
          THEN inits[k].frameloop
          ELSE canvasFrameloop
    /\ sceneOp' = [op |-> "resolve", index |-> k]
    /\ UNCHANGED <<sceneMounted, mounts, frameloopProp>>
    /\ UNCHANGED <<poolVars, trailVars, mirrorVars, easeVars>>

\* renderer.init() of call k rejects: the rest of the factory does not run
InitReject(k) ==
    /\ inits[k].status = "pending"
    /\ inits' = [inits EXCEPT ![k].status = "rejected"]
    /\ sceneOp' = [op |-> "reject", index |-> k]
    /\ UNCHANGED <<sceneMounted, mounts, frameloopProp, canvasFrameloop>>
    /\ UNCHANGED <<poolVars, trailVars, mirrorVars, easeVars>>

NextScene ==
    \/ \E f \in Frameloops : SceneMount(f)
    \/ \E f \in Frameloops : SceneRender(f)
    \/ SceneUnmount
    \/ GlFactoryCall
    \/ \E k \in InitCalls : InitResolve(k)
    \/ \E k \in InitCalls : InitReject(k)

(***************************************************************************)
(* The specifications: one unit runs, the others stay as constructed.      *)
(***************************************************************************)
vars == <<poolVars, trailVars, mirrorVars, easeVars, sceneVars>>

TrailIdle ==
    /\ gamma = InfluenceGamma
    /\ canvas = TRUE
    /\ layout = [left |-> 1, top |-> 1, width |-> 4, height |-> 4]
    /\ mounted = FALSE
    /\ hasTexture = FALSE
    /\ listening = FALSE
    /\ grid = ZeroGrid
    /\ bounds = NoBounds
    /\ rawPointer = NoPointer
    /\ pointer = <<R(0), R(0)>>
    /\ velocity = <<R(0), R(0)>>
    /\ consumed = NoPointer
    /\ raised = FALSE
    /\ ticks = 0
    /\ trailOp = NoTrailOp
    /\ twinVelocity = <<R(0), R(0)>>
    /\ twinGrid = ZeroGrid
    /\ differed = FALSE

InitSpecPool == InitPool /\ TrailIdle /\ MirrorIdle /\ EaseIdle /\ InitScene

InitSpecTrail == InitPool /\ InitTrail /\ MirrorIdle /\ EaseIdle /\ InitScene

InitSpecTrailGamma == InitPool /\ InitTrailGamma /\ MirrorIdle /\ EaseIdle /\ InitScene

InitSpecMirror == InitPool /\ TrailIdle /\ InitMirror /\ EaseIdle /\ InitScene

InitSpecEase == InitPool /\ TrailIdle /\ MirrorIdle /\ InitEase /\ InitScene

SpecPool == InitSpecPool /\ [][NextPool]_vars

\* the pool with springs that may also complete inside the animate call
NextPoolSync ==
    \/ NextPool
    \/ \E options \in TriggerOptions : TriggerSpringSync(options)
    \/ \E g \in 1 .. MaxRenders : \E options \in TriggerOptions :
          StaleTriggerSpringSync(g, options)

SpecPoolSync == InitSpecPool /\ [][NextPoolSync]_vars

SpecTrail == InitSpecTrail /\ [][NextTrail]_vars

SpecTrailGamma == InitSpecTrailGamma /\ [][NextTrail]_vars

\* two runs of the hook side by side, the stored velocity of the second being
\* changed at any time
NextTrailTwin ==
    \/ NextTrail
    \/ \E v \in TwinVelocities : PerturbTwin(v)

SpecTrailTwin == InitSpecTrail /\ [][NextTrailTwin]_vars

SpecMirror == InitSpecMirror /\ [][NextMirror]_vars

SpecEase == InitSpecEase /\ [][NextEase]_vars

InitSpecScene == InitPool /\ TrailIdle /\ MirrorIdle /\ EaseIdle /\ InitScene

SpecScene == InitSpecScene /\ [][NextScene]_vars

\* a step that moves the clock forward: in SpecPool only a frame tick FrameTick(d)
\* with d >= 1 is such a step, and one is possible exactly when this is
ClockAdvance ==
    \E d \in 1 .. MaxClock : clock + d <= MaxClock /\ clock' = clock + d

\* the host keeps rendering frames and the clock strictly increases between
\* them, as far as the horizon MaxClock
SpecPoolFair == SpecPool /\ WF_clock(ClockAdvance)

(***************************************************************************)
(* Properties of the slot-based buffer animator.                           *)
(***************************************************************************)
PoolFull == \A i \in Slots : active[i] # 0

\* the lowest index whose active flag is 0 (there is one)
LowestFree ==
    CHOOSE i \in Slots : active[i] = 0 /\ \A j \in Slots : j < i => active[j] # 0

\* the slot holds a record the frame loop advances
ManualAt(i) == active[i] = 1 /\ animations[i].kind = "manual"

\* the elapsed time the tick that moves the clock to clock' computes for slot i
ElapsedNext(i) ==
    clock' - (IF animations[i].startTime = 0 THEN clock'
              ELSE animations[i].startTime)

\* C1: when no index of `active` is 0, a call of trigger changes neither
\* `active`, `values`, any auxiliary array, the records nor the running
\* springs; the trigger of an earlier render, which scans the `active` of its
\* own buffers, likewise changes nothing when none of those is 0
C1_FullPoolTriggerIsNoOp ==
    [][/\ (poolOp'.op = "trigger" /\ PoolFull) =>
            UNCHANGED <<active, values, dataValues, dataDirty, animations,
                        springs, retired>>
       /\ poolOp'.op = "staleTrigger" =>
            \A g \in DOMAIN retired :
                (/\ <<"buffers", g>> \in poolOp'.log
                 /\ \A i \in Slots : retired[g].active[i] # 0) =>
                    UNCHANGED <<active, values, dataValues, dataDirty,
                                animations, springs, retired>>]_vars

\* C1, its case: a trigger call was rejected on a full pool
C1_Witness ==
    poolOp.op = "trigger" /\ poolOp.index = -1 /\ PoolFull

\* C2: with a free slot, trigger allocates exactly the lowest free index i:
\* active[i] becomes 1, a record for i exists, every other flag is unchanged
C2_LowestFreeIndexAllocated ==
    [][(poolOp'.op = "trigger" /\ ~PoolFull) =>
         /\ poolOp'.index = LowestFree
         /\ active' = [active EXCEPT ![LowestFree] = 1]
         /\ animations'[LowestFree] # NoAnim
         /\ \A j \in Slots \ {LowestFree} : animations'[j] = animations[j]]_vars

\* the springs started on the buffers of earlier renders that captured index
\* i and are still running
RECURSIVE RetiredSprings(_, _)
RetiredSprings(g, i) ==
    IF g > Len(retired) THEN 0
    ELSE retired[g].springs[i] + RetiredSprings(g + 1, i)

\* C3: at most one logical animation owns a slot index at a time: the
\* animations that still act on index i (the running springs that captured i,
\* also those started on the buffers of an earlier render, and the manual
\* record of an active slot i) are at most one, a free slot of the buffers in
\* use has none (so a trigger allocates only freed indices), and every running
\* spring whose callbacks write slot i is the one animation of slot i
C3_SingleOwner ==
    \A i \in Slots :
        LET live == springs[i] + RetiredSprings(1, i)
                    + (IF ManualAt(i) THEN 1 ELSE 0)
        IN  /\ live <= 1
            /\ active[i] = 0 => springs[i] = 0
            /\ springs[i] = 1 => animations[i] = SpringRecord /\ active[i] = 1

\* the invariant of C3 as long as the hook keeps the buffers it was first
\* given
C3_SingleOwnerOnFirstBuffers == renders = 0 => C3_SingleOwner

\* C4 as stated: for a duration > 0, the tick at which elapsed = duration leaves values[index]
\* equal to the target value
C4_Original_ValueIsTargetAfterTick ==
    [][poolOp'.op = "tick" =>
         \A i \in Slots :
             (ManualAt(i) /\ animations[i].duration > 0
                 /\ ElapsedNext(i) = animations[i].duration) =>
                 values'[i] = R(animations[i].targetValue)]_vars

\* C4 amended: for a duration > 0, the tick at which elapsed = duration writes the target value
\* and overwrites it in the same tick: after the tick values[index] = 0,
\* active[index] = 0 and the record is gone (the slot is freed on that frame)
C4_TargetOverwrittenAndSlotFreed ==
    [][poolOp'.op = "tick" =>
         \A i \in Slots :
             (ManualAt(i) /\ animations[i].duration > 0
                 /\ ElapsedNext(i) = animations[i].duration) =>
                 /\ <<"exact", R(animations[i].targetValue)>> \in poolOp'.log
                 /\ values'[i] = R(0)
                 /\ active'[i] = 0
                 /\ animations'[i] = NoAnim]_vars

\* C4, its case: a tick has run with elapsed = duration for some manual record
C4_Witness ==
    poolOp.op = "tick" /\ \E v \in TargetValues : <<"exact", R(v)>> \in poolOp.log

C10_StartTimeSetOnce ==
    [][poolOp'.op = "tick" =>
         \A i \in Slots :
             (ManualAt(i) /\ animations'[i] # NoAnim) =>
                 IF observed[i]
                 THEN animations'[i].startTime = animations[i].startTime
                 ELSE animations'[i].startTime = clock']_vars

\* the record of slot i after a tick is the record before it, but for the
\* start time
RecordKept(i) ==
    /\ animations'[i] # NoAnim
    /\ animations'[i].kind = "manual"
    /\ animations'[i].duration = animations[i].duration
    /\ animations'[i].easing = animations[i].easing
    /\ animations'[i].targetValue = animations[i].targetValue

\* C12: the tick at which the progress of a manual animation reaches 1 (for a
\* duration > 0: elapsed >= duration) frees the slot in that same tick: the
\* flag and the value are 0 and the record is removed; a tick at which the
\* progress has not reached 1 leaves the slot active and keeps its record
C12_FreedExactlyWhenProgressReachesOne ==
    [][poolOp'.op = "tick" =>
         \A i \in Slots : ManualAt(i) =>
             LET duration == animations[i].duration
                 reached == Progress(ElapsedNext(i), duration) = R(1)
             IN  /\ duration > 0 => (reached <=> ElapsedNext(i) >= duration)
                 /\ reached =>
                       /\ active'[i] = 0
                       /\ values'[i] = R(0)
                       /\ animations'[i] = NoAnim
                 /\ ~reached => active'[i] = 1 /\ RecordKept(i)]_vars

\* C12, its case: one tick has freed a slot whose animation had run past its
\* duration and has kept the slot of an animation that is under way
C12_Witness ==
    /\ poolOp.op = "tick"
    /\ \E v \in TargetValues : <<"late", R(v)>> \in poolOp.log
    /\ \E e \in poolOp.log : e[1] = "advance"
    /\ \E i \in Slots : active[i] = 0 /\ animations[i] = NoAnim
    /\ \E j \in Slots : ManualAt(j) /\ observed[j] /\ animations[j].duration > 0

\* the four curves as the documentation of the animator states them
Curve(easing, p) ==
    CASE easing = "linear" -> p
      [] easing = "easeIn" -> RMul(p, p)
      [] easing = "easeOut" -> RMul(p, RSub(R(2), p))
      [] easing = "easeInOut" ->
           IF RLt(p, <<1, 2>>) THEN RMul(R(2), RMul(p, p))
           ELSE RAdd(R(-1), RMul(RSub(R(4), RMul(R(2), p)), p))

\* C13: on a tick at which a manual animation is not complete (progress < 1,
\* with progress = min(elapsed / duration, 1)) the value after the tick is the
\* curve of its easing at that progress times the target value; the first tick
\* after trigger, at elapsed 0, writes 0
C13_ValueIsEasedProgressTimesTarget ==
    [][poolOp'.op = "tick" =>
         \A i \in Slots : (ManualAt(i) /\ animations[i].duration # 0) =>
             LET anim == animations[i]
                 p == RMin(RDiv(R(ElapsedNext(i)), R(anim.duration)), R(1))
             IN  /\ RLt(p, R(1)) =>
                       values'[i] = RMul(Curve(anim.easing, p), R(anim.targetValue))
                 /\ ~observed[i] => ElapsedNext(i) = 0 /\ values'[i] = R(0)]_vars

\* C13, its case: one tick has written 0 for an animation it saw for the first
\* time and 2 x (1/4)^2 x target for an easeInOut animation at a quarter of its
\* duration
C13_Witness ==
    /\ poolOp.op = "tick"
    /\ <<"first", R(0)>> \in poolOp.log
    /\ \E i \in Slots :
          /\ ManualAt(i) /\ animations[i].easing = "easeInOut"
          /\ clock - animations[i].startTime = 1 /\ animations[i].duration = 4
          /\ values[i] = RMul(<<1, 8>>, R(animations[i].targetValue))

InUnitRange(v) == RLe(R(0), v) /\ RLe(v, R(1))

\* C14: each of the four curves maps progress 0 to 0 and 1 to 1, maps [0, 1]
\* into [0, 1] and is non-decreasing on [0, 1]; easeInOut at progress 1/2 is
\* exactly 1/2, the value of both branches of its definition
C14_CurvesAreMonotoneUnitMaps ==
    easedLow # NotEased =>
        /\ pLow = R(0) => easedLow = R(0)
        /\ pHigh = R(1) => easedHigh = R(1)
        /\ InUnitRange(easedLow) /\ InUnitRange(easedHigh)
        /\ RLe(easedLow, easedHigh)
        /\ (curve = "easeInOut" /\ pLow = <<1, 2>>) =>
              /\ easedLow = <<1, 2>>
              /\ EaseInOutLower(pLow) = <<1, 2>>
              /\ EaseInOutUpper(pLow) = <<1, 2>>

\* C14, its case: easeInOut was applied at the boundary 1/2 of its two
\* branches and at the end 1 of the interval
C14_Witness ==
    /\ curve = "easeInOut" /\ pLow = <<1, 2>> /\ pHigh = R(1)
    /\ easedLow = <<1, 2>> /\ easedHigh = R(1)

\* C15: for a spring-driven slot, onUpdate(v) writes values[index] = v and
\* nothing else (flags, records, other values, auxiliary arrays), and
\* onComplete sets the flag and the value of index to 0 and removes its
\* record, every other slot being unchanged
C15_SpringCallbacksTouchOwnSlotOnly ==
    [][/\ poolOp'.op = "onUpdate" =>
            /\ springs[poolOp'.index] > 0
            /\ renders = 0 => animations[poolOp'.index] = SpringRecord
            /\ \E v \in SpringValues :
                  /\ poolOp'.log = {<<"update", R(v)>>}
                  /\ values' = [values EXCEPT ![poolOp'.index] = R(v)]
            /\ UNCHANGED <<active, animations, dataValues, dataDirty, retired>>
       /\ poolOp'.op = "onComplete" =>
            /\ springs[poolOp'.index] > 0
            /\ renders = 0 => animations[poolOp'.index] = SpringRecord
            /\ active' = [active EXCEPT ![poolOp'.index] = 0]
            /\ values' = [values EXCEPT ![poolOp'.index] = R(0)]
            /\ animations' = [animations EXCEPT ![poolOp'.index] = NoAnim]
            /\ UNCHANGED <<dataValues, dataDirty, retired>>
       /\ poolOp'.op = "retiredUpdate" =>
            /\ \E g \in DOMAIN retired : \E v \in SpringValues :
                  /\ retired[g].springs[poolOp'.index] > 0
                  /\ poolOp'.log = {<<"update", R(v)>>}
                  /\ retired' = [retired EXCEPT
                                   ![g].values[poolOp'.index] = R(v)]
            /\ UNCHANGED <<active, values, animations, dataValues, dataDirty>>
       /\ poolOp'.op = "retiredComplete" =>
            /\ \E g \in DOMAIN retired :
                  /\ retired[g].springs[poolOp'.index] > 0
                  /\ retired'[g].active =
                        [retired[g].active EXCEPT ![poolOp'.index] = 0]
                  /\ retired'[g].values =
                        [retired[g].values EXCEPT ![poolOp'.index] = R(0)]
                  /\ \A h \in DOMAIN retired \ {g} : retired'[h] = retired[h]
            /\ animations' = [animations EXCEPT ![poolOp'.index] = NoAnim]
            /\ UNCHANGED <<active, values, dataValues, dataDirty>>]_vars

\* C15, its case: the spring of slot 0 has completed while slot 1 holds the
\* value an onUpdate of its own spring wrote
C15_Witness ==
    /\ poolOp.op = "onComplete" /\ poolOp.index = 0
    /\ active[0] = 0 /\ values[0] = R(0) /\ animations[0] = NoAnim
    /\ active[1] = 1 /\ animations[1] = SpringRecord /\ values[1] = R(3)

\* the value the payload gives for key k, if it has an entry for k
HasEntry(data, k) == \E j \in 1 .. Len(data) : data[j][1] = k

EntryOf(data, k) == data[CHOOSE j \in 1 .. Len(data) : data[j][1] = k][2]

\* C16: a trigger that allocates an index i writes, for every payload key that
\* names an auxiliary buffer, the value at index i of that buffer and marks
\* the buffer dirty; the keys that name no auxiliary buffer are ignored; every
\* other index and every buffer without an entry is unchanged; and no other
\* operation on these buffers (a tick or a callback that frees the slot)
\* changes an auxiliary buffer
C16_PayloadStoredAtAllocatedIndex ==
    [][/\ (poolOp'.op = "trigger" /\ poolOp'.index # -1) =>
            \E data \in Payloads :
               /\ <<"data", data>> \in poolOp'.log
               /\ <<"threw", <<>>>> \notin poolOp'.log
               /\ DOMAIN dataValues' = DataKeys
               /\ \A k \in DataKeys :
                     IF HasEntry(data, k)
                     THEN /\ dataValues'[k] = [dataValues[k] EXCEPT
                                                 ![LowestFree] = R(EntryOf(data, k))]
                          /\ dataDirty'[k]
                     ELSE /\ dataValues'[k] = dataValues[k]
                          /\ dataDirty'[k] = dataDirty[k]
       /\ poolOp'.op \notin {"trigger", "render"} =>
            UNCHANGED <<dataValues, dataDirty>>]_vars

\* what of C16 holds: the same for every payload none of whose keys is the
\* name of a member that dataBuffers inherits from Object.prototype
C16_PayloadStoredUnlessKeyInherited ==
    [][/\ (poolOp'.op = "trigger" /\ poolOp'.index # -1) =>
            \E data \in Payloads :
               /\ <<"data", data>> \in poolOp'.log
               /\ <<"threw", <<>>>> \in poolOp'.log <=> Throws(data)
               /\ ~Throws(data) => \A k \in DataKeys :
                     IF HasEntry(data, k)
                     THEN /\ dataValues'[k] = [dataValues[k] EXCEPT
                                                 ![LowestFree] = R(EntryOf(data, k))]
                          /\ dataDirty'[k]
                     ELSE /\ dataValues'[k] = dataValues[k]
                          /\ dataDirty'[k] = dataDirty[k]
       /\ poolOp'.op \notin {"trigger", "render"} =>
            UNCHANGED <<dataValues, dataDirty>>]_vars

\* C11: with frame ticks that keep coming and a strictly increasing clock,
\* every manual animation is eventually freed, whatever its duration: a record
\* whose start time is set and whose start and end lie before the horizon of the
\* clock (so that a later tick sees elapsed > duration) leads to a free slot
C11_ManualAnimationEventuallyFreed ==
    \A i \in Slots :
        (/\ ManualAt(i)
         /\ animations[i].startTime # 0
         /\ animations[i].startTime < MaxClock
         /\ animations[i].startTime + animations[i].duration < MaxClock)
        ~> (active[i] = 0)

(***************************************************************************)
(* Properties of the trail field accumulator.                              *)
(***************************************************************************)
\* a tick of the frame loop with a texture and without a stored sample
DecayTick == trailOp'.op = "tick" /\ hasTexture /\ rawPointer = NoPointer

\* a tick of the frame loop with a texture and a stored sample
SampleTick == trailOp'.op = "tick" /\ hasTexture /\ rawPointer # NoPointer

\* an element of the grid that is greater than 0
FPositive(a) == a[1] = 1 /\ ~IsZero(a)

\* C6: on a tick without a stored sample every cell's first three channels
\* become old value x decay and the fourth is unchanged, nothing is deposited,
\* and no channel grows in absolute value
C6_PureDecayWithoutSample ==
    [][DecayTick =>
         /\ \A c \in Cells :
              /\ \A k \in 1 .. 3 :
                    /\ grid'[c][k] = Decayed(grid[c][k])
                    /\ ~FLt(FAbs(grid[c][k]), FAbs(grid'[c][k]))
              /\ grid'[c][4] = grid[c][4]
         /\ UNCHANGED <<pointer, velocity, rawPointer>>]_vars

\* C6, its case: a tick without a sample has faded a cell that held a deposit
C6_Witness ==
    /\ trailOp.op = "tick" /\ trailOp.kind = "decay"
    /\ \E c \in Cells : FPositive(grid[c][3]) /\ ~IsZero(grid[c][1])

\* C7: on every tick with a stored sample the velocity used for the deposit is
\* the sample minus the sample the latest earlier such tick consumed, also for
\* the first sample after creation, and the previous position becomes the sample
C7_VelocityIsDeltaOfConsumedSamples ==
    [][SampleTick =>
         /\ consumed # NoPointer
         /\ trailOp'.used = <<RSub(rawPointer[1], consumed[1]),
                              RSub(rawPointer[2], consumed[2])>>
         /\ pointer' = rawPointer]_vars

\* C8 as stated: a pointer-move whose bounds cannot be resolved is reachable:
\* some sequence of steps of the hook (the effect, its cleanup, a resize or a
\* scroll, a pointer-move) leads from a hook that has not run its effect yet
\* to a pointer-move handler that finds no bounds and throws (if none has
\* thrown already)
C8_Original_UnresolvedMoveReachable ==
    raised \/ \E s \in SurfacesReached : s.raised

\* C8 amended: the pointer-move handler never runs with bounds unavailable:
\* whenever it is registered the bounds are cached, it never raises, and
\* every move stores a sample; and the surface of the hook is always one of
\* those that the sequences of steps lead to
C8_MoveAlwaysHasBounds ==
    /\ ~raised
    /\ listening => bounds # NoBounds
    /\ trailOp.op = "move" => trailOp.kind # "throw" /\ rawPointer # NoPointer
    /\ Surface \in SurfacesReached

\* C8, its case: the handler has run, on the bounds the effect or a resize
\* cached
C8_Witness ==
    /\ trailOp.op = "move" /\ listening
    /\ bounds = layout /\ rawPointer # NoPointer
    /\ bounds.width = 4

ZeroVelocity == <<R(0), R(0)>>

\* v limited to [0, 2]
Into02(v) == IF RLt(v, R(0)) THEN R(0) ELSE IF RLt(R(2), v) THEN R(2) ELSE v

\* C17: a pointer-move only replaces the stored sample, each axis being the
\* position within the bounds scaled by 2 and limited to [0, 2]; it changes no
\* cell, not the previous position and not the velocity; a tick uses the
\* stored sample, that is the sample of the last pointer-move before it
C17_MoveOnlyReplacesSample ==
    [][/\ trailOp'.op = "move" =>
            LET cx == trailOp'.used[1]
                cy == trailOp'.used[2]
                b == bounds'
                x2 == RMul(R(2), RDiv(RSub(cx, R(b.left)), R(b.width)))
                y2 == RMul(R(2), RDiv(RSub(cy, R(b.top)), R(b.height)))
            IN  /\ rawPointer' = <<Into02(x2), Into02(y2)>>
                /\ UNCHANGED <<grid, pointer, velocity, consumed>>
       /\ SampleTick =>
            /\ consumed' = rawPointer
            /\ pointer' = rawPointer
            /\ trailOp'.used = TickVelocity(rawPointer, pointer)]_vars

\* C17, its case: a pointer-move outside the canvas has replaced a sample no
\* tick had consumed, with an axis limited to 0, while the grid holds a
\* deposit and the previous position is another one
C17_Witness ==
    /\ trailOp.op = "move" /\ trailOp.kind = "replace"
    /\ RLt(trailOp.used[1], R(bounds.left)) /\ rawPointer[1] = R(0)
    /\ pointer # rawPointer /\ consumed # NoPointer
    /\ \E c \in Cells : FPositive(grid[c][3])

\* C18: on a tick with a sample every cell is decayed first; a cell whose
\* centre has a squared distance d2 to the brush with 0 < d2 < (size x radius)^2
\* then gets the deposit added to its decayed channels; every other cell, also
\* one whose centre is exactly the brush position, is decayed only; the fourth
\* channel of no cell changes
C18_DepositOnlyInsideBrush ==
    [][SampleTick =>
         \A c \in Cells :
             LET x == c % size
                 y == c \div size
                 d2 == Dist(x, y, rawPointer)
                 limit == RMul(RMul(R(size), Radius), RMul(R(size), Radius))
                 faded == DecayCell(grid[c])
                 add == DepositAt(gamma, x, y, rawPointer, trailOp'.used)
             IN  /\ grid'[c][4] = grid[c][4]
                 /\ IF RLt(R(0), d2) /\ RLt(d2, limit)
                    THEN \A k \in 1 .. 3 :
                            grid'[c][k] = Added(faded[k], add[k])
                    ELSE grid'[c] = faded]_vars

\* C18, its case: a tick has deposited with the brush exactly on the centre of
\* a cell that held a deposit, and another cell lies inside the brush
C18_Witness ==
    /\ trailOp.op = "tick" /\ trailOp.kind = "deposit"
    /\ trailOp.used # ZeroVelocity
    /\ \E c \in Cells :
          /\ Dist(c % size, c \div size, pointer) = R(0)
          /\ FPositive(grid[c][3])
    /\ \E c \in Cells :
          /\ InBrush(c % size, c \div size, pointer)
          /\ FPositive(grid[c][3])

\* C19: at the end of a tick with a sample each component of the stored
\* velocity is the velocity of the tick times decay, or exactly 0 when the
\* absolute value of that product is below 1/1000
C19_VelocityDecayedAndSnapped ==
    [][SampleTick =>
         \A k \in 1 .. 2 :
             LET product == RMul(trailOp'.used[k], Decay)
             IN  velocity'[k] =
                    IF RLt(RAbs(product), <<1, 1000>>) THEN R(0) ELSE product]_vars

\* C19, its case: a tick whose velocity had a small non-zero x component and a
\* large y component: the first is stored as 0, the second decayed
C19_Witness ==
    /\ trailOp.op = "tick" /\ trailOp.kind = "deposit"
    /\ trailOp.used[1] # R(0) /\ velocity[1] = R(0)
    /\ velocity[2] # R(0) /\ velocity[2] = RMul(trailOp.used[2], Decay)

\* C20: pointer-leave, pointer-up and blur set the stored velocity to (0, 0);
\* after a pointer-leave every tick before the next pointer-move is a pure
\* decay; after a pointer-up or a blur a tick that follows without a
\* pointer-move in between deposits nothing
C20_NoDepositAfterReset ==
    [][/\ trailOp'.op \in {"leave", "up", "blur"} => velocity' = ZeroVelocity
       /\ (trailOp.op = "leave" /\ trailOp'.op = "tick") =>
            /\ trailOp'.kind = "decay"
            /\ grid' = [c \in Cells |-> DecayCell(grid[c])]
            /\ velocity' = ZeroVelocity
       /\ (trailOp.op \in {"up", "blur"} /\ trailOp'.op = "tick") =>
            grid' = [c \in Cells |-> DecayCell(grid[c])]]_vars

\* C21: on a tick whose stored sample equals the previous position, with
\* influenceGamma > 0, nothing is deposited: every cell changes as on a tick
\* without a sample (three channels times decay, the fourth unchanged)
C21_StationaryPointerDepositsNothing ==
    [][(SampleTick /\ rawPointer = pointer /\ gamma > 0) =>
         /\ trailOp'.used = ZeroVelocity
         /\ grid' = [c \in Cells |-> DecayCell(grid[c])]]_vars

\* C21, its case: with influenceGamma = 2 a tick has run on a stationary
\* sample whose brush covers a cell that holds an earlier deposit
C21_Witness ==
    /\ trailOp.op = "tick" /\ trailOp.kind = "deposit"
    /\ trailOp.used = ZeroVelocity /\ gamma = 2
    /\ consumed = pointer /\ rawPointer = pointer
    /\ \E c \in Cells :
          /\ InBrush(c % size, c \div size, pointer)
          /\ FPositive(grid[c][3])

C24_RecordsAreTheActiveSlots ==
    \A i \in Slots : (animations[i] # NoAnim) <=> (active[i] = 1)

\* C22: the velocity left stored by a tick never influences the grid: two
\* runs that differ in the stored velocity only and get the same events and
\* ticks have the same grid after every tick
C22_StoredVelocityNeverReachesGrid == twinGrid = grid

\* C22, its case: a tick has deposited while the stored velocities of the two
\* runs differed
C22_Witness ==
    /\ trailOp.op = "tick" /\ trailOp.kind = "deposit" /\ differed
    /\ twinGrid = grid
    /\ \E c \in Cells : FPositive(grid[c][3])

(***************************************************************************)
(* Properties of the vanilla pointer mirror.                               *)
(***************************************************************************)
InNdcRange(v) == v # NaN /\ ~JLt(v, R(-1)) /\ ~JLt(R(1), v)

\* C9: after any calls of handlePointerMove and updateFromZeroOne, with
\* arbitrary coordinates, both components of the uniform lie in [-1, 1] and
\* the uniform equals the tracked pointer vector
C9_UniformInRangeAndInSync ==
    /\ mUniform = mPointer
    /\ mirrorOp.op # "init" => InNdcRange(mUniform[1]) /\ InNdcRange(mUniform[2])

\* what of C9 holds whatever clamp is: the uniform is the tracked vector;
\* and both lie in [-1, 1] after a call with finite coordinates if clamp is
\* Math.min(Math.max(value, min), max)
C9_InSyncAndInRangeIfMinOfMaxAndFinite ==
    /\ mUniform = mPointer
    /\ (/\ mirrorOp.op # "init" /\ clampForm = "minOfMax"
        /\ IsFinite(mirrorOp.x) /\ IsFinite(mirrorOp.y))
          => InNdcRange(mUniform[1]) /\ InNdcRange(mUniform[2])


(***************************************************************************)
(* Properties of the scene.                                                *)
(***************************************************************************)
\* the calls of the gl factory made by the mounted instance whose init() has
\* resolved
ResolvedInits ==
    {k \in InitCalls : inits[k].status = "resolved" /\ inits[k].instance = mounts}

\* C25: the loop mode of a mounted scene is 'never' from the mount on, in
\* every state in which no init() of its renderer has resolved; it changes only
\* when an init() resolves, and then to the frameloop that was requested when
\* the factory was called
C25_LoopNeverUntilInitResolved ==
    /\ [](sceneMounted =>
            /\ ResolvedInits = {} => canvasFrameloop = "never"
            /\ ResolvedInits # {} =>
                  canvasFrameloop \in {inits[k].frameloop : k \in ResolvedInits})
    /\ [][/\ sceneOp'.op = "mount" => canvasFrameloop' = "never"
          /\ (sceneMounted /\ sceneMounted' /\ canvasFrameloop' # canvasFrameloop) =>
                /\ sceneOp'.op = "resolve"
                /\ inits[sceneOp'.index].status = "pending"
                /\ canvasFrameloop' = inits[sceneOp'.index].frameloop]_vars

\* C25, its case: a scene mounted without a frameloop prop had the loop mode
\* 'never' while init() was pending, init() has resolved and the mode is now
\* 'always'
C25_Witness ==
    /\ sceneMounted /\ sceneOp.op = "resolve"
    /\ frameloopProp = FrameloopDefault
    /\ inits[sceneOp.index].frameloop = FrameloopDefault
    /\ inits[sceneOp.index].instance = mounts
    /\ canvasFrameloop = "always"
====
